---- MODULE Spec2Model ----
(***************************************************************************)
(* A model of the dafty-mcp rental scraper: the page fetcher               *)
(* (services/fetch.service.ts), the page-count derivation                  *)
(* (services/parser.service.ts), and the search orchestrator with its      *)
(* inner page fetcher, list extraction, detail enrichment and filter       *)
(* (services/daftScraper.service.ts), the filter of                        *)
(* services/filter.service.ts and the price parser of                      *)
(* utils/parser.utils.ts.                                                  *)
(*                                                                         *)
(* Texts are sequences of one-character strings, so that substring tests,  *)
(* trimming and number parsing are computed and not assumed.               *)
(***************************************************************************)
EXTENDS Integers, Sequences, FiniteSets, TLC

VARIABLES
    \* ---- services/fetch.service.ts: one call of fetchPageHTML(url, pageNumber)
    fPc,          \* "idle" | "request" | "delay" | "returned" | "thrown"
    fUrl,         \* the url argument
    fPage,        \* the pageNumber argument
    fAttempt,     \* the loop variable attempt
    fResult,      \* the value returned ("returned") or the error raised ("thrown")
    fTrace,       \* history: what happened in this call, in order
    \* ---- services/parser.service.ts: one call of getTotalPages(html)
    tpText,       \* the text of the total-results span of the page ("" when absent)
    tpResult,     \* NoValue before the call, then the page counts derived
    \* ---- services/daftScraper.service.ts: the calls of
    \* handleSearchRentalPropertiesScraping, one per search id
    sPc,              \* "off" | "idle" | "pageRequest" | "retryDelay" | "pageDelay" | "awaitAll" | "done"
    receivedParams,   \* the parameters of the call
    currentPage,      \* the loop variable currentPage
    totalPages,       \* the loop variable totalPages
    attempt,          \* the loop variable of the inner fetchPageHTML (0 outside it)
    propertyPromises, \* the tasks pushed so far, one per result card, in order: its card, whether it is settled, and the answer to its detail request
    result,           \* NoValue until the call returns, then the value returned
    pagesRequested,   \* history: the pages fetchPageHTML was called for, in order
    pagesParsed,      \* history: the pages whose cards were extracted, in order
    pagesGivenUp,     \* history: the pages fetchPageHTML returned null for, in order
    \* ---- the environment
    site,             \* the site the searches run against: "wide" | "deep"
    \* ---- services/filter.service.ts and the filter of the search: one record
    \* given to both filters
    flRecord,     \* the record
    flFilters,    \* the criteria
    flResult,     \* NoValue before the call, then whether each filter kept the record
    \* ---- utils/parser.utils.ts: parsePrice on one card
    prText,       \* the price text of the card
    prUnitText,   \* the price text of the card's unit sub-link and sub-unit anchor
    prResult,     \* NoValue before the call, then the prices parsed
    \* ---- server.ts: one call of a tool handler registered by startServer
    toolPc,       \* "idle" | "service" | "done"
    toolName,     \* the tool whose handler was called
    extra,        \* the raw input of the call
    serviceCalls, \* history: the arguments the tool's service was called with
    raised,       \* history: NoValue, or the error the catch clause caught
    response,     \* NoValue until the handler settles, then what it settled with
    \* ---- server.ts: the HTTP routes of startServer
    transport,    \* the variable transport: NoValue (undefined) or the connection it serves
    connections,  \* the number of GET /sse connections opened so far
    posted        \* history: per POST /message, its session, the connections open, its status and the transport that handled it

fetchVars == <<fPc, fUrl, fPage, fAttempt, fResult, fTrace>>
pagesVars == <<tpText, tpResult>>
searchVars == <<sPc, receivedParams, currentPage, totalPages, attempt,
                propertyPromises, result, pagesRequested, pagesParsed, pagesGivenUp>>
siteVars == <<site>>
filterVars == <<flRecord, flFilters, flResult>>
priceVars == <<prText, prUnitText, prResult>>
toolVars == <<toolPc, toolName, extra, serviceCalls, raised, response>>
httpVars == <<transport, connections, posted>>
serverVars == <<toolVars, httpVars>>

vars == <<fetchVars, pagesVars, searchVars, siteVars, filterVars, priceVars, serverVars>>

\* what the actions of one component leave alone
notFetchVars == <<pagesVars, searchVars, siteVars, filterVars, priceVars, serverVars>>
notPagesVars == <<fetchVars, searchVars, siteVars, filterVars, priceVars, serverVars>>
notSearchVars == <<fetchVars, pagesVars, siteVars, filterVars, priceVars, serverVars>>
notFilterVars == <<fetchVars, pagesVars, searchVars, siteVars, priceVars, serverVars>>
notPriceVars == <<fetchVars, pagesVars, searchVars, siteVars, filterVars, serverVars>>
notServerVars == <<fetchVars, pagesVars, searchVars, siteVars, filterVars, priceVars>>

\* ------------------------------------------------------------------------
\* Program constants
\* ------------------------------------------------------------------------
maxFetchRetries == 2
maxPagesToFetch == 5

\* ------------------------------------------------------------------------
\* Bounds of the environment
\* ------------------------------------------------------------------------
\* the page numbers a caller passes to the fetcher: 1..MaxPageArg
MaxPageArg == 4

\* the digits and commas of the reported total: at most MaxNumLen characters
MaxNumLen == 3

\* the result cards of one results page: at most MaxCards
MaxCards == 2

\* the listings of one search that have a detail page to request: at most MaxDetail
MaxDetail == 2

\* the sub-unit anchors of one detail page: at most MaxAnchors
MaxAnchors == 3

\* the SSE connections opened and the messages posted in one run
MaxConnections == 2
MaxPosts == 2

NoValue == [none |-> TRUE]

\* ------------------------------------------------------------------------
\* Texts: sequences of one-character strings
\* ------------------------------------------------------------------------
Min(S) == CHOOSE x \in S : \A y \in S : x <= y
Max(S) == CHOOSE x \in S : \A y \in S : x >= y

Digits == {"0", "1", "2", "3", "4", "5", "6", "7", "8", "9"}
Spaces == {" ", "\t", "\n"}

DigitVal(c) ==
    CASE c = "0" -> 0 [] c = "1" -> 1 [] c = "2" -> 2 [] c = "3" -> 3 [] c = "4" -> 4
      [] c = "5" -> 5 [] c = "6" -> 6 [] c = "7" -> 7 [] c = "8" -> 8 [] c = "9" -> 9

\* String.prototype.toLowerCase, on the letters the model's texts use
LowerChar(c) ==
    CASE c = "A" -> "a" [] c = "B" -> "b" [] c = "C" -> "c" [] c = "D" -> "d"
      [] c = "E" -> "e" [] c = "G" -> "g" [] c = "I" -> "i" [] c = "M" -> "m"
      [] c = "N" -> "n" [] c = "O" -> "o" [] c = "P" -> "p" [] c = "R" -> "r"
      [] c = "S" -> "s" [] c = "T" -> "t" [] c = "W" -> "w"
      [] OTHER -> c

toLowerCase(s) == [i \in 1..Len(s) |-> LowerChar(s[i])]

\* the literal lit (lower case) is at position i of s, letter case ignored
LitAt(s, i, lit) ==
    /\ i >= 1
    /\ i + Len(lit) - 1 <= Len(s)
    /\ \A k \in 1..Len(lit) : LowerChar(s[i + k - 1]) = lit[k]

\* the first position >= i of s holding no character of Class (Len(s)+1 if none):
\* where a greedy Class* starting at i ends
SkipClass(s, i, Class) ==
    Min({j \in i..(Len(s) + 1) : j = Len(s) + 1 \/ s[j] \notin Class})

SubStr(s, i, j) == SubSeq(s, i, j - 1)      \* s.substring(i, j), 1-based

RECURSIVE RemoveChar(_, _)
RemoveChar(s, c) ==
    IF s = <<>> THEN <<>>
    ELSE IF Head(s) = c THEN RemoveChar(Tail(s), c)
    ELSE <<Head(s)>> \o RemoveChar(Tail(s), c)

\* NaN, among numbers that are never negative
NaN == 0 - 1

\* parseInt(s, 10) of a text without sign or leading space: the value of the
\* leading digits, NaN when there is none
RECURSIVE DigitsValue(_, _)
DigitsValue(s, acc) ==
    IF s = <<>> THEN acc ELSE DigitsValue(Tail(s), 10 * acc + DigitVal(Head(s)))

parseInt(s) ==
    LET e == SkipClass(s, 1, Digits)
    IN  IF e = 1 THEN NaN ELSE DigitsValue(SubStr(s, 1, e), 0)

\* Math.ceil(a / b) for a >= 0, b > 0
CeilDiv(a, b) == (a + b - 1) \div b

\* ------------------------------------------------------------------------
\* Values that may be missing. A text that is undefined is the marker Undef
\* (no text of the program holds it); a number that is null or undefined is
\* a record of its own.
\* ------------------------------------------------------------------------
Undef == <<"<undefined>">>
Null == [null |-> TRUE]
UndefNum == [undefined |-> TRUE]

\* JavaScript truthiness of a text: neither undefined nor empty
Truthy(t) == t # <<>> /\ t # Undef

\* s.includes(lit)
Includes(s, lit) == \E i \in 1..(Len(s) + 1) : i + Len(lit) - 1 <= Len(s) /\ SubSeq(s, i, i + Len(lit) - 1) = lit

\* s.trim()
Trim(s) ==
    LET keep == {i \in 1..Len(s) : s[i] \notin Spaces}
    IN  IF keep = {} THEN <<>> ELSE SubSeq(s, Min(keep), Max(keep))

\* s.replace(/[^...]/g, ''): the characters of s that are in Keep
RECURSIVE KeepChars(_, _)
KeepChars(s, Keep) ==
    IF s = <<>> THEN <<>>
    ELSE IF Head(s) \in Keep THEN <<Head(s)>> \o KeepChars(Tail(s), Keep)
    ELSE KeepChars(Tail(s), Keep)

\* the part of s after its last "/": s.split('/') and the last element
LastSegment(s) ==
    LET slashes == {i \in 1..Len(s) : s[i] = "/"}
    IN  IF slashes = {} THEN s ELSE SubSeq(s, Max(slashes) + 1, Len(s))

\* ------------------------------------------------------------------------
\* Numbers: a decimal is [num, den] with den a power of ten and no common
\* factor ten (an integer n is [num |-> n, den |-> 1]); NaN is NaNNum.
\* ------------------------------------------------------------------------
NaNNum == [nan |-> TRUE]

RECURSIVE Pow10(_)
Pow10(k) == IF k = 0 THEN 1 ELSE 10 * Pow10(k - 1)

RECURSIVE Normal(_, _)
Normal(num, den) ==
    IF den > 1 /\ num % 10 = 0 THEN Normal(num \div 10, den \div 10)
    ELSE [num |-> num, den |-> den]

IntNum(n) == [num |-> n, den |-> 1]

NumLess(a, b) == a.num * b.den < b.num * a.den

\* parseFloat(s): leading blanks, a sign, digits, a point and digits; NaN when
\* no digit is found. (No text given to it holds an exponent.)
FloatOf(sign, intDigits, fracDigits) ==
    IF intDigits = <<>> /\ fracDigits = <<>> THEN NaNNum
    ELSE Normal(sign * (DigitsValue(intDigits, 0) * Pow10(Len(fracDigits))
                           + DigitsValue(fracDigits, 0)),
                Pow10(Len(fracDigits)))

\* the digits after the point at position b, <<>> when there is no point
FloatFraction(s, b) ==
    IF b <= Len(s) /\ s[b] = "." THEN SubStr(s, b + 1, SkipClass(s, b + 1, Digits)) ELSE <<>>

FloatDigits(s, sign, sg, b) == FloatOf(sign, SubStr(s, sg, b), FloatFraction(s, b))

FloatSigned(s, sign, sg) == FloatDigits(s, sign, sg, SkipClass(s, sg, Digits))

FloatAt(s, a) ==
    IF a <= Len(s) /\ s[a] \in {"-", "+"}
      THEN FloatSigned(s, IF s[a] = "-" THEN 0 - 1 ELSE 1, a + 1)
      ELSE FloatSigned(s, 1, a)

parseFloat(s) == FloatAt(s, SkipClass(s, 1, Spaces))

\* (mutant) the weekly amount is converted without rounding to the nearest
WeeklyToMonthly_Truncate(amount) == IntNum((52 * amount.num) \div (12 * amount.den))

\* Math.round((amount * 52) / 12) for amount >= 0
WeeklyToMonthly(amount) ==
    IntNum((2 * 52 * amount.num + 12 * amount.den) \div (2 * 12 * amount.den))

\* Number.prototype.toString of a decimal >= 0 in plain notation
RECURSIVE NatText(_)
NatText(n) ==
    LET d == <<"0", "1", "2", "3", "4", "5", "6", "7", "8", "9">>
    IN  IF n < 10 THEN <<d[n + 1]>> ELSE NatText(n \div 10) \o <<d[(n % 10) + 1]>>

RECURSIVE PadLeft(_, _)
PadLeft(s, k) == IF Len(s) >= k THEN s ELSE PadLeft(<<"0">> \o s, k)

RECURSIVE Log10(_)
Log10(den) == IF den = 1 THEN 0 ELSE 1 + Log10(den \div 10)

NumText(a) ==
    IF a.den = 1 THEN NatText(a.num)
    ELSE NatText(a.num \div a.den) \o <<".">> \o PadLeft(NatText(a.num % a.den), Log10(a.den))

\* ------------------------------------------------------------------------
\* utils/parser.utils.ts: parsePrice
\* ------------------------------------------------------------------------
PriceUnknown == [value |-> Null, type |-> "unknown"]
PriceOnApplication == [value |-> Null, type |-> "on_application"]
PriceNumeric(v) == [value |-> v, type |-> "numeric"]

\* (month|week|mth|wk|pm|p\/m|pw|p\/w|perweek), in the order the regex tries them
PeriodWords ==
    << <<"m","o","n","t","h">>, <<"w","e","e","k">>, <<"m","t","h">>, <<"w","k">>,
       <<"p","m">>, <<"p","/","m">>, <<"p","w">>, <<"p","/","w">>,
       <<"p","e","r","w","e","e","k">> >>

NoPeriod == <<>>

\* the first alternative of PeriodWords found at position i of s, or NoPeriod
PeriodWordAt(s, i) ==
    LET hits == {k \in 1..Len(PeriodWords) : LitAt(s, i, PeriodWords[k])}
    IN  IF hits = {} THEN NoPeriod ELSE PeriodWords[Min(hits)]

\* (?:per\s*)?(period) at position i: with "per" and blanks first, and when
\* that finds no period word, without them
PerPeriodAt(s, i) ==
    LET withPer == IF LitAt(s, i, <<"p","e","r">>)
                     THEN PeriodWordAt(s, SkipClass(s, i + 3, Spaces))
                     ELSE NoPeriod
    IN  IF withPer # NoPeriod THEN withPer ELSE PeriodWordAt(s, i)

\* the end of ([\d,]+(?:\.\d{2})?) starting at position i (i itself when the
\* group does not match there)
AmountEnd(s, i) ==
    LET k == SkipClass(s, i, Digits \cup {","})
    IN  IF k = i THEN i
        ELSE IF k + 2 <= Len(s) /\ s[k] = "." /\ s[k+1] \in Digits /\ s[k+2] \in Digits
               THEN k + 3
               ELSE k

\* where the amount group starts when the main regex is tried at position i:
\* after "€" and blanks when they lead to an amount, else at i; 0 for no match
MainAmountStart(s, i) ==
    LET j == IF s[i] = "€" THEN SkipClass(s, i + 1, Spaces) ELSE i
    IN  IF s[i] = "€" /\ AmountEnd(s, j) > j THEN j
        ELSE IF AmountEnd(s, i) > i THEN i
        ELSE 0

\* the main regex on s: NoValue, or the amount text and the period word of
\* the leftmost match
MainMatchTo(s, a, e) ==
    [amount |-> SubStr(s, a, e), period |-> PerPeriodAt(s, SkipClass(s, e, Spaces))]

MainMatchFrom(s, a) == MainMatchTo(s, a, AmountEnd(s, a))

MainMatchAmong(s, hits) ==
    IF hits = {} THEN NoValue ELSE MainMatchFrom(s, MainAmountStart(s, Min(hits)))

MainPriceMatch(s) == MainMatchAmong(s, {i \in 1..Len(s) : MainAmountStart(s, i) > 0})

\* the stricter regex, anchored at both ends: ^amount\s*(?:per\s*)?(period)$
PeriodsEndingAt(s, i) ==
    {PeriodWords[k] : k \in {k \in 1..Len(PeriodWords) :
        LitAt(s, i, PeriodWords[k]) /\ i + Len(PeriodWords[k]) = Len(s) + 1}}

\* the period words that end s after "per" and blanks at position w
PeriodsViaPer(s, w) ==
    IF LitAt(s, w, <<"p","e","r">>) THEN PeriodsEndingAt(s, SkipClass(s, w + 3, Spaces)) ELSE {}

StrictMatchOf(s, e, viaPer, direct) ==
    IF e = 1 \/ (viaPer \cup direct) = {} THEN NoValue
    ELSE [amount |-> SubStr(s, 1, e),
          period |-> IF viaPer # {} THEN CHOOSE x \in viaPer : TRUE
                     ELSE CHOOSE x \in direct : TRUE]

StrictMatchAt(s, e, w) == StrictMatchOf(s, e, PeriodsViaPer(s, w), PeriodsEndingAt(s, w))

StrictMatchTo(s, e) == StrictMatchAt(s, e, SkipClass(s, e, Spaces))

StrictPriceMatch(s) == StrictMatchTo(s, AmountEnd(s, 1))

StartsWith(s, lit) == Len(s) >= Len(lit) /\ SubSeq(s, 1, Len(lit)) = lit

IsWeekly(periodWord) ==
    \/ StartsWith(periodWord, <<"w","e","e","k">>)
    \/ StartsWith(periodWord, <<"w","k">>)
    \/ periodWord = <<"p","w">>
    \/ periodWord = <<"p","/","w">>
    \/ periodWord = <<"p","e","r","w","e","e","k">>

\* /(month|week|mth|wk|pm|pw|p\/m|p\/w)/i matches somewhere in s
HasPeriodWord(s) == \E i \in 1..Len(s) : PeriodWordAt(s, i) # NoPeriod

PriceOnApplicationLit == <<"p","r","i","c","e"," ","o","n"," ","a","p","p","l","i","c","a","t","i","o","n">>
ContactAgentLit == <<"c","o","n","t","a","c","t"," ","a","g","e","n","t">>
DublinLit == <<"d","u","b","l","i","n">>
PerMonthLit == <<"p","e","r"," ","m","o","n","t","h">>
PerWeekLit == <<"p","e","r"," ","w","e","e","k">>

\* the last part of parsePrice: a text that is a bare number once every other
\* character is dropped
SimplePrice(priceStrNormalized, potentialPrice) ==
    IF potentialPrice = NaNNum THEN PriceUnknown
    ELSE IF Includes(priceStrNormalized, <<"€">>) THEN PriceNumeric(potentialPrice)
    ELSE IF /\ Includes(priceStrNormalized, DublinLit)
            /\ Includes(priceStrNormalized, NumText(potentialPrice))
            /\ NumLess(potentialPrice, IntNum(100))
           THEN PriceUnknown
    ELSE IF /\ NumLess(potentialPrice, IntNum(100))
            /\ ~Includes(priceStrNormalized, <<"€">>)
            /\ ~HasPeriodWord(priceStrNormalized)
           THEN PriceUnknown
    ELSE IF ~NumLess(potentialPrice, IntNum(100)) THEN PriceNumeric(potentialPrice)
    ELSE PriceUnknown

\* the last resort: the string is nothing but a number
SimpleNumeric(priceStrNormalized, simpleNumericOnly, kept) ==
    IF ~(Len(simpleNumericOnly) > 0 /\ simpleNumericOnly = kept) THEN PriceUnknown
    ELSE SimplePrice(priceStrNormalized, parseFloat(simpleNumericOnly))

parsePriceSimple(priceString, priceStrNormalized) ==
    SimpleNumeric(priceStrNormalized,
                  KeepChars(priceString, Digits \cup {"."}),
                  KeepChars(priceString, Digits \cup {"€", ".", ","} \cup Spaces))

\* an amount captured together with its period word
PriceForPeriod(period, amount) ==
    IF amount = NaNNum THEN PriceUnknown
    ELSE IF IsWeekly(period) THEN PriceNumeric(WeeklyToMonthly(amount))
    ELSE PriceNumeric(amount)

StrictPrice(priceString, priceStrNormalized, m) ==
    IF m = NoValue THEN parsePriceSimple(priceString, priceStrNormalized)
    ELSE PriceForPeriod(m.period, parseFloat(RemoveChar(m.amount, ",")))

\* the second pattern: an amount that must be followed by a period word
parsePriceStrict(priceString, priceStrNormalized) ==
    StrictPrice(priceString, priceStrNormalized, StrictPriceMatch(priceStrNormalized))

MainAmount(priceString, priceStrNormalized, period, amount) ==
    IF amount = NaNNum THEN PriceUnknown
    ELSE IF period # NoPeriod THEN PriceForPeriod(period, amount)
    ELSE IF Includes(priceStrNormalized, <<"€">>) THEN PriceNumeric(amount)
    ELSE parsePriceStrict(priceString, priceStrNormalized)

MainPrice(priceString, priceStrNormalized, m) ==
    IF \/ Includes(priceStrNormalized, PriceOnApplicationLit)
       \/ Includes(priceStrNormalized, ContactAgentLit)
      THEN PriceOnApplication
    ELSE IF m = NoValue THEN parsePriceStrict(priceString, priceStrNormalized)
    ELSE MainAmount(priceString, priceStrNormalized, m.period,
                    parseFloat(RemoveChar(m.amount, ",")))

parsePriceNormalized(priceString, priceStrNormalized) ==
    MainPrice(priceString, priceStrNormalized, MainPriceMatch(priceStrNormalized))

parsePrice(priceString) ==
    IF ~Truthy(priceString) THEN PriceUnknown
    ELSE parsePriceNormalized(priceString, toLowerCase(priceString))

\* ------------------------------------------------------------------------
\* utils/parser.utils.ts: parseBeds, extractLatLng, slugify, formatBer
\* ------------------------------------------------------------------------
\* /(\d+)\s*(?:to|-)\s*(\d+)\s*bed/i tried at position i: NoValue or the groups
BedLit == <<"b","e","d">>

BedsRangeEnd(s, i, a, d, e) ==
    IF a > i /\ e > d /\ LitAt(s, SkipClass(s, e, Spaces), BedLit)
      THEN [g1 |-> SubStr(s, i, a), g2 |-> SubStr(s, d, e)]
      ELSE NoValue

BedsRangeSecond(s, i, a, d) == BedsRangeEnd(s, i, a, d, SkipClass(s, d, Digits))

BedsRangeSep(s, i, a, b) ==
    IF LitAt(s, b, <<"t","o">>) THEN BedsRangeSecond(s, i, a, SkipClass(s, b + 2, Spaces))
    ELSE IF LitAt(s, b, <<"-">>) THEN BedsRangeSecond(s, i, a, SkipClass(s, b + 1, Spaces))
    ELSE NoValue

BedsRangeFirst(s, i, a) == BedsRangeSep(s, i, a, SkipClass(s, a, Spaces))

BedsRangeAt(s, i) == BedsRangeFirst(s, i, SkipClass(s, i, Digits))

\* /(\d+)\s*bed/i tried at position i
BedsSingleEnd(s, i, a) ==
    IF a > i /\ LitAt(s, SkipClass(s, a, Spaces), BedLit) THEN [g1 |-> SubStr(s, i, a)]
    ELSE NoValue

BedsSingleAt(s, i) == BedsSingleEnd(s, i, SkipClass(s, i, Digits))

StudioLit == <<"s","t","u","d","i","o">>

BedsRange(minBeds, maxBeds) ==
    [min |-> Min({minBeds, maxBeds}), max |-> Max({minBeds, maxBeds}), isStudio |-> FALSE]

BedsOfRangeMatch(m) == BedsRange(parseInt(m.g1), parseInt(m.g2))

BedsSingle(num) == [min |-> num, max |-> num, isStudio |-> FALSE]

BedsFromHits(n, rangeHits, singleHits) ==
    IF rangeHits # {} THEN BedsOfRangeMatch(BedsRangeAt(n, Min(rangeHits)))
    ELSE IF singleHits # {} THEN BedsSingle(parseInt(BedsSingleAt(n, Min(singleHits)).g1))
    ELSE Null

parseBedsNormalized(n) ==
    IF Includes(n, StudioLit) THEN [min |-> 1, max |-> 1, isStudio |-> TRUE]
    ELSE BedsFromHits(n, {i \in 1..Len(n) : BedsRangeAt(n, i) # NoValue},
                         {i \in 1..Len(n) : BedsSingleAt(n, i) # NoValue})

parseBeds(bedString) ==
    IF ~Truthy(bedString) THEN Null ELSE parseBedsNormalized(toLowerCase(bedString))

\* the literal is at position i of s, letter case respected
LitAtCS(s, i, lit) ==
    /\ i >= 1
    /\ i + Len(lit) - 1 <= Len(s)
    /\ SubSeq(s, i, i + Len(lit) - 1) = lit

CoordChars == Digits \cup {".", "-"}

\* /q=loc:([\d.-]+)\+([\d.-]+)/ or /viewpoint=([\d.-]+),([\d.-]+)/ at position i
CoordsAt(s, i, lead, sep) ==
    LET a == i + Len(lead)
        b == SkipClass(s, a, CoordChars)
        c == SkipClass(s, b + 1, CoordChars)
    IN  IF LitAtCS(s, i, lead) /\ b > a /\ LitAtCS(s, b, sep) /\ c > b + 1
          THEN [g1 |-> SubStr(s, a, b), g2 |-> SubStr(s, b + 1, c)]
          ELSE NoValue

CoordsMatch(s, lead, sep) ==
    LET hits == {i \in 1..Len(s) : CoordsAt(s, i, lead, sep) # NoValue}
    IN  IF hits = {} THEN NoValue ELSE CoordsAt(s, Min(hits), lead, sep)

NoLatLng == [none |-> TRUE]

LatLngOf(lat, lng) ==
    IF lat # NaNNum /\ lng # NaNNum THEN [lat |-> lat, lng |-> lng] ELSE NoLatLng

LatLngFromMatch(m) ==
    IF m = NoValue THEN NoLatLng ELSE LatLngOf(parseFloat(m.g1), parseFloat(m.g2))

FirstMatch(m1, m2) == IF m1 # NoValue THEN m1 ELSE m2

\* extractLatLng, from the href of the map anchor (Undef when there is none)
extractLatLng(link) ==
    IF ~Truthy(link) THEN NoLatLng
    ELSE LatLngFromMatch(FirstMatch(
            CoordsMatch(link, <<"q","=","l","o","c",":">>, <<"+">>),
            CoordsMatch(link, <<"v","i","e","w","p","o","i","n","t","=">>, <<",">>)))

\* .replace(/\s+/g, '-'): every run of blanks becomes one hyphen
RECURSIVE BlanksToHyphen(_)
BlanksToHyphen(s) ==
    IF s = <<>> THEN <<>>
    ELSE IF Head(s) \in Spaces
           THEN <<"-">> \o BlanksToHyphen(SubSeq(s, SkipClass(s, 1, Spaces), Len(s)))
    ELSE <<Head(s)>> \o BlanksToHyphen(Tail(s))

SlugChars ==
    Digits \cup {"-", "a","b","c","d","e","f","g","h","i","j","k","l","m","n","o","p","q",
                 "r","s","t","u","v","w","x","y","z"}

slugify(str) ==
    IF str = Undef THEN <<>>
    ELSE KeepChars(BlanksToHyphen(toLowerCase(Trim(str))), SlugChars)

\* s.replace(lit, ''): the first occurrence of lit removed
RemoveFirst(s, lit) ==
    LET hits == {i \in 1..Len(s) : LitAtCS(s, i, lit)}
    IN  IF hits = {} THEN s
        ELSE SubSeq(s, 1, Min(hits) - 1) \o SubSeq(s, Min(hits) + Len(lit), Len(s))

formatBer(ber) ==
    IF ~Truthy(ber) THEN Undef
    ELSE LET cleanedBer == Trim(RemoveFirst(ber, <<"B","E","R"," ">>))
         IN  IF cleanedBer = <<"S","I","_","6","6","6">> THEN <<"E","x","e","m","p","t">>
             ELSE cleanedBer

\* ------------------------------------------------------------------------
\* services/daftScraper.service.ts: list extraction of one result card
\*
\* A raw card holds what the selectors of the card yield, before trimming:
\*   address, tagline, priceText, bedsText, bathsText, typeText : texts
\*   href    : the href of the card link (Undef: no link, or no href)
\*   testid  : the data-testid of the card (Undef: none)
\*   berAria, berTracking, berText : the three places a rating is looked for
\*   mapHref : the href of the map anchor (Undef: no map block, or no anchor)
\*   unitLinks : the sub-links of the card container, each a raw unit
\* A raw unit: href, priceText, hasDetails, first, second, third, infoSpans.
\* ------------------------------------------------------------------------
baseUrl == <<"h","t","t","p","s",":","/","/","w","w","w",".","d","a","f","t",".","i","e">>
ForRentPath == <<"/","f","o","r","-","r","e","n","t","/">>
ResultPrefix == <<"r","e","s","u","l","t","-">>

NoUnits == [present |-> FALSE, list |-> <<>>]
UnitsArray(units) == [present |-> TRUE, list |-> units]

\* !x for a number that may be null: null, undefined, NaN and 0 are falsy
FalsyNum(x) == x = Null \/ x = UndefNum \/ x = NaNNum \/ (x # Null /\ x # UndefNum /\ x # NaNNum /\ x.num = 0)

\* the three texts of a unit: from the details container, else the info spans
UnitBedsText(u) ==
    IF u.hasDetails THEN Trim(u.first)
    ELSE IF Len(u.infoSpans) > 0 THEN Trim(u.infoSpans[1]) ELSE Undef
UnitBathsText(u) ==
    IF u.hasDetails THEN Trim(u.second)
    ELSE IF Len(u.infoSpans) > 1 THEN Trim(u.infoSpans[2]) ELSE Undef
UnitTypeText(u) ==
    IF u.hasDetails THEN Trim(u.third)
    ELSE IF Len(u.infoSpans) > 2 THEN Trim(u.infoSpans[3]) ELSE Undef

UnitDetails(u, priceString, parsed, bedsString) ==
    [url |-> baseUrl \o u.href,
     id |-> LastSegment(u.href),
     priceString |-> priceString,
     parsedPrice |-> parsed.value,
     priceType |-> parsed.type,
     bedsString |-> bedsString,
     parsedBeds |-> parseBeds(bedsString),
     bathsString |-> UnitBathsText(u),
     propertyTypeString |-> UnitTypeText(u)]

UnitPriced(u, priceString) ==
    UnitDetails(u, priceString, parsePrice(priceString), UnitBedsText(u))

\* one sub-link of a card: NoValue when it has no href (the callback returns)
ParseUnitLink(u) ==
    IF ~Truthy(u.href) THEN NoValue ELSE UnitPriced(u, Trim(u.priceText))

\* the test before property.units.push(unitDetails)
UnitComplete(u) ==
    /\ Truthy(u.id) /\ Truthy(u.url) /\ Truthy(u.priceString)
    /\ Truthy(u.bedsString) /\ Truthy(u.bathsString) /\ Truthy(u.propertyTypeString)

\* property.units after the loop over the sub-links
ParseUnitLinks(links) ==
    SelectSeq([k \in 1..Len(links) |-> ParseUnitLink(links[k])],
              LAMBDA u : u # NoValue /\ UnitComplete(u))

\* (mutant) the card's own price is replaced only when its kind is unknown
BackfillPrice_UnknownOnly(property) == property.priceType = "unknown"

\* the card's own price is replaced by the first unit's
BackfillPrice(property) == property.priceType = "unknown" \/ FalsyNum(property.parsedPrice)

\* (mutant) the backfill copies the first unit's value and text, not its kind
BackfillPriceFrom_KeepType(property, firstUnit) ==
    IF BackfillPrice(property)
      THEN [property EXCEPT !.parsedPrice = firstUnit.parsedPrice,
                            !.priceString = firstUnit.priceString]
      ELSE property

BackfillPriceFrom(property, firstUnit) ==
    IF BackfillPrice(property)
      THEN [property EXCEPT !.parsedPrice = firstUnit.parsedPrice,
                            !.priceString = firstUnit.priceString,
                            !.priceType = firstUnit.priceType]
      ELSE property

BackfillBedsFrom(property, firstUnit) ==
    IF property.parsedBeds = Null
      THEN [property EXCEPT !.parsedBeds = firstUnit.parsedBeds,
                            !.bedsString = firstUnit.bedsString]
      ELSE property

BackfillTypeFrom(property, firstUnit) ==
    IF ~Truthy(property.propertyTypeString)
      THEN [property EXCEPT !.propertyTypeString = firstUnit.propertyTypeString]
      ELSE property

\* the id of a card: the last segment of its link, else its test id
CardIdOr(raw, idFromLink) ==
    IF Truthy(idFromLink) THEN idFromLink
    ELSE IF Truthy(raw.testid) THEN RemoveFirst(raw.testid, ResultPrefix)
    ELSE idFromLink
CardId(raw) == CardIdOr(raw, IF Truthy(raw.href) THEN LastSegment(raw.href) ELSE Undef)

\* the url of a card: its link, else one made of the address and the id
CardUrl(raw, address, id) ==
    IF Truthy(raw.href) THEN baseUrl \o raw.href
    ELSE IF Truthy(id) /\ Truthy(address)
           THEN baseUrl \o ForRentPath \o slugify(address) \o <<"/">> \o id
    ELSE Undef

\* the rating of a card, from the three places it is looked for
CardBer(raw) ==
    IF Truthy(raw.berAria) THEN raw.berAria
    ELSE IF Truthy(raw.berTracking) THEN raw.berTracking
    ELSE Trim(raw.berText)

CardFields(raw, address, id, mainPriceString, parsed, mainBedsString, ber, latLng) ==
    [address |-> address,
     url |-> CardUrl(raw, address, id),
     id |-> id,
     tagline |-> Trim(raw.tagline),
     priceString |-> mainPriceString,
     parsedPrice |-> parsed.value,
     priceType |-> parsed.type,
     bedsString |-> mainBedsString,
     parsedBeds |-> parseBeds(mainBedsString),
     bathsString |-> Trim(raw.bathsText),
     propertyTypeString |-> Trim(raw.typeText),
     ber |-> IF Truthy(ber) THEN formatBer(ber) ELSE Undef,
     latitude |-> IF latLng # NoLatLng THEN latLng.lat ELSE UndefNum,
     longitude |-> IF latLng # NoLatLng THEN latLng.lng ELSE UndefNum,
     units |-> NoUnits]

\* the card's own fields, before its unit sub-links are looked at
CardOwn(raw) ==
    CardFields(raw, Trim(raw.address), CardId(raw), Trim(raw.priceText),
               parsePrice(Trim(raw.priceText)), Trim(raw.bedsText), CardBer(raw),
               extractLatLng(raw.mapHref))

\* property.units = [] and, when a unit was kept, the backfill from the first
WithUnits(own, units) ==
    IF Len(units) = 0 THEN [own EXCEPT !.units = UnitsArray(<<>>)]
    ELSE [BackfillTypeFrom(BackfillBedsFrom(BackfillPriceFrom(own, units[1]), units[1]), units[1])
            EXCEPT !.units = UnitsArray(units)]

\* the property object after the card callback's synchronous part
CardWithLinks(raw, own) ==
    IF Len(raw.unitLinks) = 0 THEN own ELSE WithUnits(own, ParseUnitLinks(raw.unitLinks))

ParseCard(raw) == CardWithLinks(raw, CardOwn(raw))

\* (mutant) a record is emitted without an address
Emittable_NoAddress(property) == Truthy(property.url) /\ Truthy(property.id)

\* property.address && property.url && property.id
Emittable(property) == Truthy(property.address) /\ Truthy(property.url) /\ Truthy(property.id)

\* ------------------------------------------------------------------------
\* services/daftScraper.service.ts: the detail page of one listing
\*
\* A detail response is one of
\*   [kind |-> "failed"]   the request is rejected (network, status, timeout)
\*   [kind |-> "broken"]   a body whose processing raises an exception
\*   [kind |-> "page", mapHref, subUnits, berAria, berText, berContainer]
\* A sub-unit anchor: href, title, first, second, third, berLabel.
\* ------------------------------------------------------------------------
StudioType == <<"S","t","u","d","i","o">>

WithLatLng(property, latLng) ==
    IF latLng # NoLatLng
      THEN [property EXCEPT !.latitude = latLng.lat, !.longitude = latLng.lng]
      ELSE property

\* latitude and longitude are replaced when the detail page has coordinates
RefreshLatLng(property, detail) == WithLatLng(property, extractLatLng(detail.mapHref))

SubUnitDetails(property, a, priceString, parsed, beds, typeString) ==
    [address |-> property.address,
     tagline |-> property.tagline,
     latitude |-> property.latitude,
     longitude |-> property.longitude,
     url |-> baseUrl \o a.href,
     id |-> LastSegment(a.href),
     priceString |-> priceString,
     parsedPrice |-> parsed.value,
     priceType |-> parsed.type,
     bedsString |-> Trim(a.first),
     bathsString |-> Trim(a.second),
     propertyTypeString |->
         IF beds # Null /\ beds.isStudio /\ ~Truthy(typeString) THEN StudioType ELSE typeString,
     parsedBeds |-> beds,
     ber |-> IF Truthy(a.berLabel) THEN formatBer(a.berLabel) ELSE Undef,
     units |-> NoUnits]

SubUnitPriced(property, a, priceString) ==
    SubUnitDetails(property, a, priceString, parsePrice(priceString),
                   parseBeds(Trim(a.first)), Trim(a.third))

\* one sub-unit anchor of a development page: NoValue when it has no href
ParseSubUnit(property, a) ==
    IF ~Truthy(a.href) THEN NoValue ELSE SubUnitPriced(property, a, Trim(a.title))

\* (mutant) a sub-unit is kept without a price text
SubUnitValid_NoPrice(u) ==
    Truthy(u.id) /\ Truthy(u.url) /\ Truthy(u.address)

\* the test before subProperties.push(unitDetails)
SubUnitValid(u) ==
    Truthy(u.id) /\ Truthy(u.url) /\ Truthy(u.address) /\ Truthy(u.priceString)

\* subProperties after the loop over the anchors
ParseSubUnits(property, anchors) ==
    SelectSeq([k \in 1..Len(anchors) |-> ParseSubUnit(property, anchors[k])],
              LAMBDA u : u # NoValue /\ SubUnitValid(u))

\* the rating of a regular detail page, from the three places it is looked for
DetailBerText(detail) ==
    IF Truthy(detail.berAria) THEN detail.berAria
    ELSE IF Truthy(Trim(detail.berText)) THEN Trim(detail.berText)
    ELSE Trim(detail.berContainer)

WithBer(property, detailBer) ==
    IF Truthy(detailBer) THEN [property EXCEPT !.ber = formatBer(detailBer)] ELSE property

\* (mutant) the rating of the detail page replaces the card's
DetailBer_Always(property, detail) == WithBer(property, DetailBerText(detail))

\* the rating is taken from the detail page when the card gave none
DetailBer(property, detail) ==
    IF Truthy(property.ber) THEN property ELSE WithBer(property, DetailBerText(detail))

\* (mutant) a listing whose detail page failed is dropped
DetailFallback_Drop(property) == <<>>

\* what the catch block of a listing's task returns
DetailFallback(property) == IF Emittable(property) THEN <<property>> ELSE <<>>

\* what a regular detail page returns
EmitIfComplete(property) == IF Emittable(property) THEN <<property>> ELSE <<>>
RegularPage(property, detail) == EmitIfComplete(DetailBer(property, detail))

\* (mutant) the development itself is emitted before its sub-units
Development_KeepParent(property, detail) ==
    <<property>> \o ParseSubUnits(property, detail.subUnits)

\* a development page is replaced by its sub-units
Development(property, detail) == ParseSubUnits(property, detail.subUnits)

PageResult(refreshed, detail) ==
    IF Len(detail.subUnits) > 0 THEN Development(refreshed, detail)
    ELSE RegularPage(refreshed, detail)

\* the array a listing's task resolves to, given the response to its request
DetailResult(property, detail) ==
    IF detail.kind # "page" THEN DetailFallback(property)
    ELSE PageResult(RefreshLatLng(property, detail), detail)

\* ------------------------------------------------------------------------
\* services/daftScraper.service.ts: the filter applied to the scraped records
\*
\* receivedParams: location [isArray, value], min_price, max_price, num_beds
\* (IntNum(n) or UndefNum), property_type (a text or Undef).
\* ------------------------------------------------------------------------
WordChars ==
    Digits \cup {"_"} \cup
    {"a","b","c","d","e","f","g","h","i","j","k","l","m","n","o","p","q","r","s","t","u","v","w","x","y","z"} \cup
    {"A","B","C","D","E","F","G","H","I","J","K","L","M","N","O","P","Q","R","S","T","U","V","W","X","Y","Z"}

IsWordAt(s, i) == i >= 1 /\ i <= Len(s) /\ s[i] \in WordChars

\* \b between s[i-1] and s[i]
BoundaryAt(s, i) == IsWordAt(s, i - 1) # IsWordAt(s, i)

\* (mutant) the short postal code is looked for anywhere, not as a whole word
MatchesWord_Anywhere(s, w) == Includes(toLowerCase(s), w)

\* s.match(/\bw\b/i)
MatchesWord(s, w) ==
    \E i \in 1..Len(s) : LitAt(s, i, w) /\ BoundaryAt(s, i) /\ BoundaryAt(s, i + Len(w))

RingsendLit == <<"r","i","n","g","s","e","n","d">>
ringsendSynonyms ==
    << RingsendLit,
       <<"i","r","i","s","h","t","o","w","n">>,
       <<"g","r","a","n","d"," ","c","a","n","a","l"," ","d","o","c","k">>,
       <<"d","u","b","l","i","n"," ","4">>,
       <<"d","u","b","l","i","n"," ","2">>,
       <<" ","d","4">>,
       <<" ","d","2">> >>

\* the digits captured by /dublin\s*(\d+)/i, <<>> when there is no match
PostalCodeAt(s, i) ==
    IF ~LitAt(s, i, DublinLit) THEN <<>>
    ELSE LET a == SkipClass(s, i + 6, Spaces)
             b == SkipClass(s, a, Digits)
         IN  SubStr(s, a, b)

PostalCodeMatch(s) ==
    LET hits == {i \in 1..Len(s) : PostalCodeAt(s, i) # <<>>}
    IN  IF hits = {} THEN <<>> ELSE PostalCodeAt(s, Min(hits))

SingleLocationMatch(propertyAddressLower, requestedLocationLower) ==
    IF requestedLocationLower = RingsendLit
      THEN \/ \E k \in 1..Len(ringsendSynonyms) : Includes(propertyAddressLower, ringsendSynonyms[k])
           \/ MatchesWord(propertyAddressLower, <<"d","4">>)
           \/ MatchesWord(propertyAddressLower, <<"d","2">>)
      ELSE \/ Includes(propertyAddressLower, requestedLocationLower)
           \/ LET code == PostalCodeMatch(requestedLocationLower)
              IN  /\ code # <<>>
                  /\ \/ Includes(propertyAddressLower, DublinLit \o <<" ">> \o code)
                     \/ MatchesWord(propertyAddressLower, <<"d">> \o code)

\* the requested locations: lower-cased, trimmed, empty ones removed
RequestedLocations(location) ==
    LET raw == IF location.isArray THEN location.value ELSE <<location.value>>
        low == [k \in 1..Len(raw) |-> Trim(toLowerCase(raw[k]))]
    IN  SelectSeq(low, LAMBDA l : l # <<>>)

\* receivedParams.location is truthy: any array, or a non-empty string
LocationGiven(location) == location.isArray \/ Truthy(location.value)

PriceOk(p, params) ==
    \/ (params.min_price = UndefNum /\ params.max_price = UndefNum)
    \/ /\ p.priceType = "numeric"
       /\ p.parsedPrice # Null
       /\ (params.min_price = UndefNum \/ ~NumLess(p.parsedPrice, params.min_price))
       /\ (params.max_price = UndefNum \/ ~NumLess(params.max_price, p.parsedPrice))

BedsOk(p, params) ==
    \/ params.num_beds = UndefNum
    \/ /\ p.parsedBeds # Null
       /\ params.num_beds.num >= p.parsedBeds.min
       /\ params.num_beds.num <= p.parsedBeds.max

TypeOk(p, params) ==
    \/ ~Truthy(params.property_type)
    \/ /\ Truthy(p.propertyTypeString)
       /\ Includes(toLowerCase(p.propertyTypeString), toLowerCase(params.property_type))

LocationOk(p, params) ==
    \/ ~LocationGiven(params.location)
    \/ LET requestedLocations == RequestedLocations(params.location)
           propertyAddressLower == IF Truthy(p.address) THEN toLowerCase(p.address) ELSE <<>>
       IN  \/ Len(requestedLocations) = 0
           \/ /\ propertyAddressLower # <<>>
              /\ \E k \in 1..Len(requestedLocations) :
                     SingleLocationMatch(propertyAddressLower, requestedLocations[k])

noFiltersActive(params) ==
    /\ params.min_price = UndefNum
    /\ params.max_price = UndefNum
    /\ params.num_beds = UndefNum
    /\ params.property_type = Undef

\* the predicate of allScrapedProperties.filter
KeepProperty(p, params) ==
    \/ noFiltersActive(params)
    \/ PriceOk(p, params) /\ BedsOk(p, params) /\ TypeOk(p, params) /\ LocationOk(p, params)

SearchFilter(properties, params) == SelectSeq(properties, LAMBDA p : KeepProperty(p, params))

\* ------------------------------------------------------------------------
\* services/filter.service.ts: filterProperties
\*
\* filters: location [isArray, value], minPrice, maxPrice, numBeds
\* (IntNum(n) or UndefNum), propertyType (a text or Undef).
\* ------------------------------------------------------------------------
filterRingsendSynonyms ==
    << RingsendLit,
       <<"i","r","i","s","h","t","o","w","n">>,
       <<"g","r","a","n","d"," ","c","a","n","a","l"," ","d","o","c","k">> >>

\* the callback of requestedLocations.some
FilterLocationMatch(propertyAddressLower, requestedLocationLower) ==
    IF requestedLocationLower = RingsendLit
      THEN \E k \in 1..Len(filterRingsendSynonyms) :
               Includes(propertyAddressLower, filterRingsendSynonyms[k])
    ELSE IF Includes(propertyAddressLower, requestedLocationLower) THEN TRUE
    ELSE IF PostalCodeMatch(requestedLocationLower) # <<>>
      THEN \/ Includes(propertyAddressLower,
                       DublinLit \o <<" ">> \o PostalCodeMatch(requestedLocationLower))
           \/ MatchesWord(propertyAddressLower,
                          <<"d">> \o PostalCodeMatch(requestedLocationLower))
    ELSE FALSE

\* (mutant) the price bounds are exclusive
FilterPriceFails_Exclusive(p, filters) ==
    /\ filters.minPrice # UndefNum \/ filters.maxPrice # UndefNum
    /\ \/ p.priceType # "numeric" \/ p.parsedPrice = Null
       \/ filters.minPrice # UndefNum /\ ~NumLess(filters.minPrice, p.parsedPrice)
       \/ filters.maxPrice # UndefNum /\ ~NumLess(p.parsedPrice, filters.maxPrice)

\* the price block returns false
FilterPriceFails(p, filters) ==
    /\ filters.minPrice # UndefNum \/ filters.maxPrice # UndefNum
    /\ \/ p.priceType # "numeric" \/ p.parsedPrice = Null
       \/ filters.minPrice # UndefNum /\ NumLess(p.parsedPrice, filters.minPrice)
       \/ filters.maxPrice # UndefNum /\ NumLess(filters.maxPrice, p.parsedPrice)

\* the beds block returns false
FilterBedsFails(p, filters) ==
    /\ filters.numBeds # UndefNum
    /\ \/ p.parsedBeds = Null
       \/ filters.numBeds.num < p.parsedBeds.min
       \/ filters.numBeds.num > p.parsedBeds.max

\* the property type block returns false
FilterTypeFails(p, filters) ==
    /\ Truthy(filters.propertyType)
    /\ \/ ~Truthy(p.propertyTypeString)
       \/ ~Includes(toLowerCase(p.propertyTypeString), toLowerCase(filters.propertyType))

\* the location block, given the requested locations and the address in lower case
FilterLocationMisses(requestedLocations, propertyAddressLower) ==
    /\ Len(requestedLocations) > 0
    /\ \/ propertyAddressLower = <<>>
       \/ ~\E k \in 1..Len(requestedLocations) :
               FilterLocationMatch(propertyAddressLower, requestedLocations[k])

\* the location block returns false
FilterLocationFails(p, filters) ==
    /\ LocationGiven(filters.location)
    /\ FilterLocationMisses(RequestedLocations(filters.location),
                            IF Truthy(p.address) THEN toLowerCase(p.address) ELSE <<>>)

\* the predicate of properties.filter: true when no block returned false
FilterKeeps(p, filters) ==
    IF FilterPriceFails(p, filters) THEN FALSE
    ELSE IF FilterBedsFails(p, filters) THEN FALSE
    ELSE IF FilterTypeFails(p, filters) THEN FALSE
    ELSE IF FilterLocationFails(p, filters) THEN FALSE
    ELSE TRUE

filterProperties(properties, filters) == SelectSeq(properties, LAMBDA p : FilterKeeps(p, filters))

\* ------------------------------------------------------------------------
\* services/fetch.service.ts
\* ------------------------------------------------------------------------
\* The urls and response bodies the environment offers.
FetchUrls == {"u1", "u2"}
FetchBodies == {"", "<html>A</html>", "<html>B</html>"}
\* axios failures: a response with a non-2xx status, or no response at all
\* (timeout, connection failure), or a thrown value that is not an Error.
FetchFailures == {[axios |-> TRUE, status |-> 404],
                  [axios |-> TRUE, status |-> 500],
                  [axios |-> TRUE, status |-> 0],
                  [axios |-> FALSE, status |-> 0]}

\* (mutant) a 404 is treated like any other failure
Is404_Never(err) == FALSE

\* axios.isAxiosError(error) && error.response?.status === 404
Is404(err) == err.axios /\ err.status = 404

\* History only: how a rejected request is written in fTrace.
ErrTag(err) ==
    IF ~err.axios THEN "nonAxios"
    ELSE IF err.status = 404 THEN "404"
    ELSE IF err.status = 0 THEN "noResponse"
    ELSE "httpError"

ScraperErrorMaxRetries(pageNumber) ==
    [type |-> "ScraperError", message |-> "Max retries reached for page", page |-> pageNumber]

ScraperErrorAfterLoop(pageNumber) ==
    [type |-> "ScraperError", message |-> "Failed to fetch page after multiple retries", page |-> pageNumber]

FetchIdle ==
    /\ fPc = "idle"
    /\ fUrl = NoValue
    /\ fPage = 0
    /\ fAttempt = 0
    /\ fResult = NoValue
    /\ fTrace = <<>>

\* The guard of the for loop: attempt <= config.scraping.maxFetchRetries + 1.
FetchLoopGuard(n) == n <= maxFetchRetries + 1

\* (mutant) gives up one attempt early
FetchGiveUp_OffByOne(n) == n >= maxFetchRetries

\* The test that ends the retries: attempt > config.scraping.maxFetchRetries.
FetchGiveUp(n) == n > maxFetchRetries

\* A call: the loop starts with attempt = 1 and issues the first request.
FetchCall ==
    /\ fPc \in {"idle", "returned", "thrown"}
    /\ \E u \in FetchUrls, p \in 1..MaxPageArg :
         /\ fUrl' = u
         /\ fPage' = p
    /\ fAttempt' = 1
    /\ fResult' = NoValue
    /\ IF FetchLoopGuard(1)
         THEN /\ fPc' = "request"
              /\ fTrace' = <<"get">>
         ELSE /\ fPc' = "thrown"
              /\ fTrace' = <<"throw">>
    /\ UNCHANGED notFetchVars

\* axios.get resolves: the body is returned at once.
FetchResolve ==
    /\ fPc = "request"
    /\ \E body \in FetchBodies : fResult' = body
    /\ fPc' = "returned"
    /\ fTrace' = Append(fTrace, "ok")
    /\ UNCHANGED <<fUrl, fPage, fAttempt>>
    /\ UNCHANGED notFetchVars

\* axios.get rejects: the catch block.
FetchReject ==
    /\ fPc = "request"
    /\ \E err \in FetchFailures :
         IF Is404(err)
           THEN /\ fPc' = "returned"
                /\ fResult' = ""
                /\ fTrace' = Append(fTrace, ErrTag(err))
           ELSE IF FetchGiveUp(fAttempt)
             THEN /\ fPc' = "thrown"
                  /\ fResult' = ScraperErrorMaxRetries(fPage)
                  /\ fTrace' = Append(Append(fTrace, ErrTag(err)), "throw")
             ELSE /\ fPc' = "delay"
                  /\ fResult' = fResult
                  /\ fTrace' = Append(Append(fTrace, ErrTag(err)), "delay")
    /\ UNCHANGED <<fUrl, fPage, fAttempt>>
    /\ UNCHANGED notFetchVars

\* delay(retryDelayMs) elapses: attempt++ and the loop guard is tested again.
FetchDelayElapsed ==
    /\ fPc = "delay"
    /\ fAttempt' = fAttempt + 1
    /\ IF FetchLoopGuard(fAttempt + 1)
         THEN /\ fPc' = "request"
              /\ fResult' = fResult
              /\ fTrace' = Append(fTrace, "get")
         ELSE /\ fPc' = "thrown"
              /\ fResult' = ScraperErrorAfterLoop(fPage)
              /\ fTrace' = Append(fTrace, "throw")
    /\ UNCHANGED <<fUrl, fPage>>
    /\ UNCHANGED notFetchVars

FetchAction ==
    \/ FetchCall
    \/ FetchResolve
    \/ FetchReject
    \/ FetchDelayElapsed

\* ------------------------------------------------------------------------
\* services/parser.service.ts: getTotalPages, and the same derivation as the
\* search loop of services/daftScraper.service.ts makes it on page 1
\* ------------------------------------------------------------------------
resultsPerPage == 20
MAX_PAGES_TO_FETCH == 5

TotalResultsLit == <<"t","o","t","a","l"," ","r","e","s","u","l","t","s">>

\* totalResultsString.match(/of\s*([\d,]+)\s*total results/i) tried at position i:
\* the capture group, or NoValue when the pattern does not match there
TotalMatchAt(s, i) ==
    IF ~LitAt(s, i, <<"o", "f">>) THEN NoValue
    ELSE LET a == SkipClass(s, i + 2, Spaces)
             b == SkipClass(s, a, Digits \cup {","})
             c == SkipClass(s, b, Spaces)
         IN  IF b > a /\ LitAt(s, c, TotalResultsLit) THEN [group |-> SubStr(s, a, b)]
             ELSE NoValue

\* the leftmost match, as String.prototype.match finds it
TotalMatch(s) ==
    LET hits == {i \in 1..Len(s) : TotalMatchAt(s, i) # NoValue}
    IN  IF hits = {} THEN NoValue ELSE TotalMatchAt(s, Min(hits))

\* (mutant) the cap on the page count is forgotten
getTotalPages_NoCap(totalResultsString) ==
    IF totalResultsString = <<>> THEN 1
    ELSE LET match == TotalMatch(totalResultsString)
         IN  IF match = NoValue THEN 1
             ELSE LET totalResults == parseInt(RemoveChar(match.group, ","))
                  IN  IF totalResults = NaN THEN 1
                      ELSE CeilDiv(totalResults, 20)

\* parser.service.ts getTotalPages, from the text of the total-results span
getTotalPages(totalResultsString) ==
    IF totalResultsString = <<>> THEN 1
    ELSE LET match == TotalMatch(totalResultsString)
         IN  IF match = NoValue \/ match.group = <<>> THEN 1
             ELSE LET totalResults == parseInt(RemoveChar(match.group, ","))
                  IN  IF totalResults = NaN THEN 1
                      ELSE LET calculatedPages == CeilDiv(totalResults, 20)
                           IN  Min({calculatedPages, maxPagesToFetch})

\* (mutant) the page count rounds down
Page1TotalPages_Floor(totalResultsString) ==
    IF totalResultsString = <<>> THEN 1
    ELSE LET match == TotalMatch(totalResultsString)
         IN  IF match = NoValue THEN 1
             ELSE LET totalResults == parseInt(RemoveChar(match.group, ","))
                  IN  IF totalResults = NaN THEN 1
                      ELSE Min({totalResults \div resultsPerPage, MAX_PAGES_TO_FETCH})

\* daftScraper.service.ts, currentPage === 1: the value left in totalPages
\* (every branch that finds no number assigns 1, the initial value)
Page1TotalPages(totalResultsString) ==
    IF totalResultsString = <<>> THEN 1
    ELSE LET match == TotalMatch(totalResultsString)
         IN  IF match = NoValue \/ match.group = <<>> THEN 1
             ELSE LET totalResults == parseInt(RemoveChar(match.group, ","))
                  IN  IF totalResults = NaN THEN 1
                      ELSE LET calculatedPages == CeilDiv(totalResults, resultsPerPage)
                           IN  Min({calculatedPages, MAX_PAGES_TO_FETCH})

\* The texts the total-results span may hold: nothing, or a lead, the word
\* "of", blanks, digits and commas, blanks, and a tail.
NumChars == {"0", "2", "4", "5", ","}
RECURSIVE SeqsUpTo(_, _)
SeqsUpTo(S, n) ==
    IF n = 0 THEN {<<>>}
    ELSE LET shorter == SeqsUpTo(S, n - 1)
         IN  shorter \cup {Append(t, x) : t \in shorter, x \in S}

TotalLeads == {<<>>, <<"1", "-", "2", "0", " ">>}
TotalWords == {<<"o", "f">>, <<"o">>}
TotalBlanks == {<<>>, <<" ">>}
TotalTails == {TotalResultsLit,
               <<"T","o","t","a","l"," ","R","e","s","u","l","t","s">>,
               <<"r","e","s","u","l","t","s">>}

TotalTexts ==
    {<<>>} \cup
    {lead \o word \o b1 \o num \o b2 \o tail :
        lead \in TotalLeads, word \in TotalWords, b1 \in TotalBlanks,
        num \in SeqsUpTo(NumChars, MaxNumLen), b2 \in TotalBlanks, tail \in TotalTails}

PagesIdle ==
    /\ tpText = <<>>
    /\ tpResult = NoValue

\* getTotalPages(html) is called, and the search loop derives its own count
GetTotalPagesCall ==
    /\ tpResult = NoValue
    /\ tpResult' = [service |-> getTotalPages(tpText), loop |-> Page1TotalPages(tpText)]
    /\ UNCHANGED tpText
    /\ UNCHANGED notPagesVars

\* ------------------------------------------------------------------------
\* services/daftScraper.service.ts: the site as the search sees it
\* ------------------------------------------------------------------------
SearchIds == {"s1", "s2"}

MAX_FETCH_RETRIES == maxFetchRetries

\* the sites of the model: "wide" serves up to MAX_PAGES_TO_FETCH results
\* pages of listings with a link; "deep" serves one results page with one
\* card of any kind, and detail pages with up to MaxAnchors sub-unit anchors
Sites == {"wide", "deep"}

\* the site two concurrent searches run against: two results pages of one
\* listing each, whose detail request fails or delivers a single-unit page
PairSite == "pair"

DigitChar(n) == <<"0","1","2","3","4","5","6","7","8","9">>[n + 1]

\* the href of card i of page n: its last segment is the listing's id
CardHref(n, i) == <<"/","a","/">> \o <<DigitChar(n), DigitChar(i)>>

NoUnitLinks == <<>>
BlockUnitLinks(n, i) ==
    << [href |-> <<"/","f","o","r","-","r","e","n","t","/","u">> \o <<DigitChar(n), DigitChar(i)>>,
        priceText |-> <<" ","€","4","0","0"," ","p","e","r"," ","w","e","e","k"," ">>, hasDetails |-> TRUE,
        first |-> <<"1"," ","B","e","d">>, second |-> <<"1"," ","B","a","t","h">>, third |-> <<"F","l","a","t">>,
        infoSpans |-> <<>>],
       [href |-> <<"/","f","o","r","-","r","e","n","t","/","v">> \o <<DigitChar(n), DigitChar(i)>>,
        priceText |-> <<"€","1",",","0","0","0">>, hasDetails |-> FALSE,
        first |-> <<>>, second |-> <<>>, third |-> <<>>,
        infoSpans |-> << <<"2"," ","B","e","d">> >>] >>

\* the cards a site may serve: an ordinary listing, a card without link or
\* test id, a card without address, and a development with unit sub-links
CardKinds == {"plain", "bare", "anon", "block"}

RawCard(kind, n, i) ==
    [address |-> CASE kind = "anon" -> <<" "," ">>
                   [] kind = "block" -> <<"2"," ","O","a","k",","," ","D","u","b","l","i","n"," ","4">>
                   [] OTHER -> <<" ","1"," ","E","l","m",","," ","D","4"," ">>,
     href |-> IF kind = "bare" THEN Undef ELSE CardHref(n, i),
     testid |-> IF kind = "bare" THEN Undef ELSE <<"r","e","s","u","l","t","-">> \o <<DigitChar(n), DigitChar(i)>>,
     tagline |-> IF kind = "block" THEN <<"N","e","w"," ","h","o","m","e","s">> ELSE <<>>,
     priceText |-> IF kind = "block" THEN <<>> ELSE <<"€","1",",","5","0","0"," ","p","e","r"," ","m","o","n","t","h">>,
     bedsText |-> IF kind = "block" THEN <<>> ELSE <<"2"," ","B","e","d">>,
     bathsText |-> IF kind = "block" THEN <<>> ELSE <<"1"," ","B","a","t","h">>,
     typeText |-> IF kind = "block" THEN <<>> ELSE <<"A","p","a","r","t","m","e","n","t">>,
     berAria |-> IF kind = "plain" THEN <<"B","E","R"," ","A","2">> ELSE Undef,
     berTracking |-> Undef,
     berText |-> <<>>,
     mapHref |-> IF kind = "plain" THEN <<"?","q","=","l","o","c",":","5","3",".","3","+","-","6",".","2","&">> ELSE Undef,
     unitLinks |-> IF kind = "block" THEN BlockUnitLinks(n, i) ELSE NoUnitLinks]

\* the cards of one served page, by kind
LinkedKinds == {"plain", "block"}
PageCards(profile) ==
    IF profile = "deep" THEN {<<k>> : k \in CardKinds}
    ELSE IF profile = "pair" THEN {<<"plain">>}
    ELSE SeqsUpTo(LinkedKinds, MaxCards) \cup {<<"bare">>}

\* the property extracted from card i of page n, tabulated
CardPlaces == CardKinds \X (1..MAX_PAGES_TO_FETCH) \X (1..MaxCards)
ExtractedTable == [c \in CardPlaces |-> ParseCard(RawCard(c[1], c[2], c[3]))] @@ <<>>
Extracted(kind, n, i) == ExtractedTable[<<kind, n, i>>]

\* what the total-results span of a served page may hold
LaterTotals == { <<"1","-","2","0"," ","o","f"," ","4","5"," ","T","o","t","a","l"," ","R","e","s","u","l","t","s">> }
PairTotals == { <<"1","-","2","0"," ","o","f"," ","2","1"," ","t","o","t","a","l"," ","r","e","s","u","l","t","s">> }
FirstTotals ==
    { <<>>,
      <<"1","-","0"," ","o","f"," ","0"," ","t","o","t","a","l"," ","r","e","s","u","l","t","s">>,
      <<"1","-","2","0"," ","o","f"," ","4","5"," ","T","o","t","a","l"," ","R","e","s","u","l","t","s">>,
      <<"1","-","2","0"," ","o","f"," ","1",",","0","0","0"," ","t","o","t","a","l"," ","r","e","s","u","l","t","s">> }
PageTotals(profile, n) ==
    IF profile = "deep" THEN { <<>> }
    ELSE IF profile = "pair" THEN PairTotals
    ELSE IF n = 1 THEN FirstTotals
    ELSE LaterTotals

\* the bodies a successful page request may deliver: the empty body, a body
\* whose processing raises an exception, or a results page
PageBodies(profile, n) ==
    {[kind |-> "empty"], [kind |-> "broken"]} \cup
    {[kind |-> "html", totalResultsString |-> t, hasResultsList |-> FALSE, cards |-> <<>>] :
        t \in PageTotals(profile, n)} \cup
    {[kind |-> "html", totalResultsString |-> t, hasResultsList |-> TRUE, cards |-> ks] :
        t \in PageTotals(profile, n), ks \in PageCards(profile)}

\* the sub-unit anchors a development page may hold: a studio with price and
\* rating, a dearer flat, an anchor without title, an anchor without href
AnchorKinds == {"priced", "costly", "untitled", "unlinked"}

\* anchor j of the detail page of card i of page n
Anchor(kind, n, i, j) ==
    [href |-> IF kind = "unlinked" THEN Undef ELSE CardHref(n, i) \o <<DigitChar(j)>>,
     title |-> CASE kind = "untitled" -> <<" ">>
                 [] kind = "costly" -> <<"€","2",",","5","0","0"," ","p","e","r"," ","m","o","n","t","h">>
                 [] OTHER -> <<" ","€","1",",","2","0","0"," ","p","e","r"," ","m","o","n","t","h"," ">>,
     first |-> IF kind = "priced" THEN <<"S","t","u","d","i","o">> ELSE <<"1"," ","B","e","d">>,
     second |-> <<"1"," ","B","a","t","h">>,
     third |-> IF kind = "priced" THEN <<>> ELSE <<"F","l","a","t">>,
     berLabel |-> IF kind = "priced" THEN <<"B","E","R"," ","B","2">> ELSE Undef]

SubUnitAnchors(kinds, n, i) == [j \in 1..Len(kinds) |-> Anchor(kinds[j], n, i, j)]

DetailMapHref == <<"?","q","=","l","o","c",":","5","3",".","4","+","-","6",".","3","&">>

DetailPage(anchors, hasMap) ==
    [kind |-> "page",
     mapHref |-> IF hasMap THEN DetailMapHref ELSE Undef,
     subUnits |-> anchors,
     berAria |-> Undef, berText |-> <<" ","B","E","R"," ","C","1"," ">>, berContainer |-> <<>>]

\* the answers to a detail request: the try block fails (the request is
\* rejected, or an exception is raised while the body is processed), or a
\* page arrives, with or without map link, with the sub-unit anchors listed
Answer(kind, anchors, hasMap) == [kind |-> kind, anchors |-> anchors, hasMap |-> hasMap]
FailedAnswer == Answer("failed", <<>>, FALSE)
WideAnswers ==
    {FailedAnswer, Answer("page", <<>>, TRUE), Answer("page", <<"priced", "costly">>, TRUE)}
DeepAnswers ==
    {FailedAnswer} \cup
    {Answer("page", kinds, m) : kinds \in SeqsUpTo(AnchorKinds, MaxAnchors), m \in BOOLEAN}
PairAnswers == {FailedAnswer, Answer("page", <<>>, TRUE)}
DetailAnswers(profile) ==
    IF profile = "deep" THEN DeepAnswers
    ELSE IF profile = "pair" THEN PairAnswers
    ELSE WideAnswers

DetailResponse(answer, n, i) ==
    IF answer.kind = "page"
      THEN DetailPage(SubUnitAnchors(answer.anchors, n, i), answer.hasMap)
      ELSE [kind |-> answer.kind]

\* the array the task of card i of page n resolves to, tabulated
ResolvedPlaces ==
    (CardPlaces \X WideAnswers) \cup ({<<k, 1, 1>> : k \in CardKinds} \X DeepAnswers)
ResolvedTable ==
    [c \in ResolvedPlaces |->
        DetailResult(ExtractedTable[c[1]], DetailResponse(c[2], c[1][2], c[1][3]))] @@ <<>>
Resolved(kind, n, i, answer) == ResolvedTable[<<<<kind, n, i>>, answer>>]

NoAnswer == Answer("none", <<>>, FALSE)

Text(loc) == [isArray |-> FALSE, value |-> loc]

\* the parameters of the searches
SearchParams ==
    { [location |-> Text(<<"D","u","b","l","i","n"," ","4">>), min_price |-> UndefNum, max_price |-> IntNum(2000),
       num_beds |-> UndefNum, property_type |-> Undef] }

\* ------------------------------------------------------------------------
\* The two filters on one record: the records and criteria offered
\* ------------------------------------------------------------------------
NumericPrice(v) == [priceType |-> "numeric", parsedPrice |-> IntNum(v)]
NoPrice(type) == [priceType |-> type, parsedPrice |-> Null]
Beds(min, max) == [min |-> min, max |-> max, isStudio |-> FALSE]

\* the fields of a Property the filters read
FilterRecord(address, price, beds, typeString) ==
    [address |-> address, priceType |-> price.priceType, parsedPrice |-> price.parsedPrice,
     parsedBeds |-> beds, propertyTypeString |-> typeString]

\* the listings of the filter's tests, a listing without address, and
\* addresses that hold a postal code in its short form
FilterRecords ==
    { FilterRecord(<<"1","2"," ","M","a","i","n"," ","S","t",","," ","D","u","b","l","i","n"," ","4">>,
                   NumericPrice(2000), Beds(2, 2), <<"A","p","a","r","t","m","e","n","t">>),
      FilterRecord(<<"4"," ","O","a","k"," ","A","v","e",","," ","D","u","b","l","i","n"," ","2">>,
                   NumericPrice(1500), Beds(1, 1), <<"S","t","u","d","i","o">>),
      FilterRecord(<<"7"," ","P","i","n","e"," ","L","n",","," ","R","i","n","g","s","e","n","d",","," ","D","u","b","l","i","n"," ","4">>,
                   NumericPrice(2500), Beds(3, 3), <<"H","o","u","s","e">>),
      FilterRecord(<<"1"," ","M","a","p","l","e"," ","D","r",","," ","G","r","a","n","d"," ","C","a","n","a","l"," ","D","o","c","k",","," ","D","4">>,
                   NoPrice("on_application"), Beds(2, 2), <<"A","p","a","r","t","m","e","n","t">>),
      FilterRecord(<<"2"," ","B","i","r","c","h"," ","R","d",","," ","C","o","r","k"," ","C","i","t","y">>,
                   NumericPrice(1200), Beds(2, 2), <<"A","p","a","r","t","m","e","n","t">>),
      FilterRecord(<<"3"," ","S","e","a"," ","R","d",","," ","I","r","i","s","h","t","o","w","n">>,
                   NoPrice("unknown"), Null, <<>>),
      FilterRecord(<<"5"," ","E","l","m",","," ","D","4","0">>,
                   NumericPrice(2000), Beds(1, 3), <<"H","o","u","s","e">>),
      FilterRecord(<<"8"," ","A","s","h",","," ","D","2">>,
                   NumericPrice(2000), Beds(2, 2), <<"T","o","w","n"," ","H","o","u","s","e">>),
      FilterRecord(Undef, NumericPrice(2000), Beds(2, 2), <<"F","l","a","t">>) }

NoLocation == Text(Undef)
Several(locs) == [isArray |-> TRUE, value |-> locs]

\* the locations asked for: none, one, blank, several, an empty array
FilterLocations ==
    { NoLocation,
      Text(<<"D","u","b","l","i","n"," ","4">>),
      Text(<<"R","i","n","g","s","e","n","d">>),
      Text(<<" ","C","O","R","K"," ">>),
      Text(<<"d","u","b","l","i","n","4">>),
      Text(<<"S","o","u","t","h"," ","D","u","b","l","i","n"," ","2">>),
      Text(<<" "," ">>),
      Several(<<>>),
      Several(<< <<"C","o","r","k"," ","C","i","t","y">>, <<"D","u","b","l","i","n"," ","2">> >>),
      Several(<< <<"R","i","n","g","s","e","n","d">>, <<"C","o","r","k">> >>) }

\* the price bounds asked for: around the price of a listing
FilterPrices == {UndefNum, IntNum(1999), IntNum(2000), IntNum(2001)}
FilterBeds == {UndefNum, IntNum(1), IntNum(2)}
FilterTypes == {Undef, <<"h","o","u","s","e">>}

FilterCriteria ==
    [location : FilterLocations, minPrice : FilterPrices, maxPrice : FilterPrices,
     numBeds : FilterBeds, propertyType : FilterTypes]

\* the parameters of the search that carry the same criteria
ReceivedParams(filters) ==
    [location |-> filters.location, min_price |-> filters.minPrice, max_price |-> filters.maxPrice,
     num_beds |-> filters.numBeds, property_type |-> filters.propertyType]

FilterIdle ==
    /\ flRecord = NoValue
    /\ flFilters = NoValue
    /\ flResult = NoValue

\* both filters are applied to the one record
FilterCall ==
    /\ flResult = NoValue
    /\ flResult' = [search |-> SearchFilter(<<flRecord>>, ReceivedParams(flFilters)) = <<flRecord>>,
                    service |-> filterProperties(<<flRecord>>, flFilters) = <<flRecord>>]
    /\ UNCHANGED <<flRecord, flFilters>>
    /\ UNCHANGED notFilterVars

\* ------------------------------------------------------------------------
\* parsePrice on a card: the price texts offered
\* ------------------------------------------------------------------------
\* the amounts of the texts "€A per p"
PriceAmounts == {100, 101, 102, 103, 250, 999, 1000, 1500, 12345}

MonthlyWords == { <<"m","o","n","t","h">>, <<"p","m">>, <<"p","/","m">>, <<"m","t","h">> }
WeeklyWords == { <<"w","e","e","k">>, <<"p","w">>, <<"p","/","w">>, <<"w","k">> }

\* the text "€A per p"
PerPeriodText(A, p) == <<"€">> \o NatText(A) \o <<" ","p","e","r"," ">> \o p

PerPeriodTexts == {PerPeriodText(A, p) : A \in PriceAmounts, p \in MonthlyWords \cup WeeklyWords}

\* texts made only of digits
DigitTexts ==
    { <<"0">>,
      <<"5">>,
      <<"0","0","7">>,
      <<"5","0">>,
      <<"9","9">>,
      <<"1","0","0">>,
      <<"1","0","1">>,
      <<"1","5","0","0">>,
      <<"5","0","0","0","0">> }

\* texts made of digits and thousands commas
CommaTexts ==
    { <<"1",",","5","0","0">>,
      <<"1","0",",","0","0","0">>,
      <<"2",",","0","0","0",",","0","0","0">> }

\* the texts of the tests of parsePrice, and texts with a sign, a point or two amounts
OtherPriceTexts ==
    { <<"D","u","b","l","i","n"," ","4">>,
      <<"D","4">>,
      <<"P","r","i","c","e"," ","o","n"," ","A","p","p","l","i","c","a","t","i","o","n">>,
      <<"P","l","e","a","s","e"," ","C","O","N","T","A","C","T"," ","A","G","E","N","T">>,
      <<>>,
      <<"€">>,
      <<"p","e","r"," ","m","o","n","t","h">>,
      <<"N","o","t"," ","a"," ","p","r","i","c","e">>,
      <<"€","2",",","5","0","0"," ","p","e","r"," ","m","o","n","t","h">>,
      <<"€","8","0","0","p","m">>,
      <<"€"," ","7","5","0"," ","P","e","r"," ","M","o","n","t","h">>,
      <<"1","5","0","0"," ","p","e","r"," ","m","o","n","t","h">>,
      <<"€","5","0","0",".","7","5"," ","p","e","r"," ","w","e","e","k">>,
      <<"€","2","5","0","0",".","5","0"," ","p","e","r"," ","m","o","n","t","h">>,
      <<"€","2","0","0","0","p","e","r","m","o","n","t","h">>,
      <<"€","1","0","0","p","e","r","w","e","e","k">>,
      <<"€","5","0">>,
      <<"5","0"," ","p","/","w">>,
      <<"€","0">>,
      <<"-","5","0","0">>,
      <<","," ","€","5","0","0"," ","p","e","r"," ","m","o","n","t","h">>,
      <<"1",".","5">>,
      <<"€","1",",","5">>,
      <<"F","r","o","m"," ","€","1",",","2","0","0"," ","t","o"," ","€","1",",","5","0","0">>,
      <<"9","9",".","9","9">>,
      <<"1","0","0",".","5">> }

PriceTexts == PerPeriodTexts \cup DigitTexts \cup CommaTexts \cup OtherPriceTexts \cup {Undef}

\* the price texts of the card's unit
UnitPriceTexts ==
    { <<"€","4","0","0"," ","p","e","r"," ","w","e","e","k">>,
      <<"€","1",",","0","0","0">>,
      <<"P","r","i","c","e"," ","o","n"," ","A","p","p","l","i","c","a","t","i","o","n">>,
      <<"1","2">>,
      <<"1","2","0","0">>,
      <<"P","O","A">> }

\* a card with the price text, and one unit sub-link with the unit's price text
PriceCard(priceText, unitText) ==
    [RawCard("block", 1, 1) EXCEPT
        !.priceText = priceText,
        !.unitLinks = << [BlockUnitLinks(1, 1)[1] EXCEPT !.priceText = unitText] >>]

\* a sub-unit anchor of the card's detail page with the unit's price text
PriceAnchor(unitText) == [Anchor("costly", 1, 1, 1) EXCEPT !.title = unitText]

PriceIdle ==
    /\ prText = <<>>
    /\ prUnitText = <<>>
    /\ prResult = NoValue

\* parsePrice(text); the card is extracted, its price backfilled from the
\* unit; the sub-unit anchor of its detail page is parsed
PriceCall ==
    /\ prResult = NoValue
    /\ prResult' = [parsed |-> parsePrice(prText),
                    card |-> ParseCard(PriceCard(prText, prUnitText)),
                    subUnits |-> ParseSubUnits(ParseCard(PriceCard(prText, prUnitText)),
                                               <<PriceAnchor(prUnitText), PriceAnchor(prText)>>)]
    /\ UNCHANGED <<prText, prUnitText>>
    /\ UNCHANGED notPriceVars

\* ------------------------------------------------------------------------
\* services/daftScraper.service.ts: handleSearchRentalPropertiesScraping
\* ------------------------------------------------------------------------
\* the task pushed for one card. A card without url resolves to [] at once;
\* any other card has its detail request in flight
TaskOf(n, i, kind, property) ==
    [page |-> n, index |-> i, card |-> kind,
     state |-> IF Truthy(property.url) THEN "pending" ELSE "fulfilled",
     answer |-> NoAnswer]

NewTask(n, i, kind) == TaskOf(n, i, kind, Extracted(kind, n, i))

\* the property object extracted from the card of a task, which its closure holds
TaskProperty(task) == Extracted(task.card, task.page, task.index)

\* the array a task resolves to: [] for a card without url, else what the
\* response to its detail request gives
TaskValue(task) ==
    IF task.answer = NoAnswer THEN <<>>
    ELSE Resolved(task.card, task.page, task.index, task.answer)

RECURSIVE Flat(_)
Flat(arrays) == IF arrays = <<>> THEN <<>> ELSE Head(arrays) \o Flat(Tail(arrays))

InFlight(tasks) == Cardinality({k \in 1..Len(tasks) : Truthy(TaskProperty(tasks[k]).url)})

\* the error returned when page 1 cannot be fetched
InitialPageError(params) ==
    [content |-> [errorType |-> "NetworkError",
                  sourceFunction |-> "handleSearchRentalPropertiesScraping.fetchPageHTML",
                  details |-> [locationParam |-> params.location, receivedParams |-> params]],
     isError |-> TRUE]

\* (mutant) the catch block returns its error without the error flag
CaughtError_Unflagged(params) ==
    [content |-> [errorType |-> "GenericScrapingError",
                  sourceFunction |-> "handleSearchRentalPropertiesScraping",
                  details |-> [locationParam |-> params.location, receivedParams |-> params]]]

\* the error returned by the catch block of the whole search
CaughtError(params) ==
    [content |-> [errorType |-> "GenericScrapingError",
                  sourceFunction |-> "handleSearchRentalPropertiesScraping",
                  details |-> [locationParam |-> params.location, receivedParams |-> params]],
     isError |-> TRUE]

\* the value returned after Promise.all
SearchSuccess(tasks, params) ==
    [content |-> [properties |->
        SearchFilter(Flat([k \in 1..Len(tasks) |-> TaskValue(tasks[k])]), params)]]

SearchOff ==
    /\ sPc = [s \in SearchIds |-> "off"]
    /\ receivedParams = [s \in SearchIds |-> NoValue]
    /\ currentPage = [s \in SearchIds |-> 1]
    /\ totalPages = [s \in SearchIds |-> 1]
    /\ attempt = [s \in SearchIds |-> 0]
    /\ propertyPromises = [s \in SearchIds |-> <<>>]
    /\ result = [s \in SearchIds |-> NoValue]
    /\ pagesRequested = [s \in SearchIds |-> <<>>]
    /\ pagesParsed = [s \in SearchIds |-> <<>>]
    /\ pagesGivenUp = [s \in SearchIds |-> <<>>]
    /\ site = "wide"

\* (mutant) no page is preceded by the delay
DelayBeforePage_Never(n) == FALSE

\* if (currentPage > 1) await delay(1500)
DelayBeforePage(n) == n > 1

\* (mutant) the attempt counter is one variable shared by all searches
RequestPage_SharedAttempt(s, n) ==
    /\ attempt' = [t \in SearchIds |-> 1]
    /\ pagesRequested' = [pagesRequested EXCEPT ![s] = Append(@, n)]
    /\ sPc' = [sPc EXCEPT ![s] = "pageRequest"]

\* the request of page n: fetchPageHTML(n) starts with attempt 1
RequestPage(s, n) ==
    /\ attempt' = [attempt EXCEPT ![s] = 1]
    /\ pagesRequested' = [pagesRequested EXCEPT ![s] = Append(@, n)]
    /\ sPc' = [sPc EXCEPT ![s] = "pageRequest"]

\* the top of the loop body for page n: the delay, or the request at once
LoopTop(s, n) ==
    IF DelayBeforePage(n)
      THEN /\ sPc' = [sPc EXCEPT ![s] = "pageDelay"]
           /\ attempt' = [attempt EXCEPT ![s] = 0]
           /\ UNCHANGED pagesRequested
      ELSE RequestPage(s, n)

\* the call: currentPage = 1, totalPages = 1, and the loop is entered
SearchStart(s) ==
    /\ sPc[s] = "idle"
    /\ currentPage' = [currentPage EXCEPT ![s] = 1]
    /\ totalPages' = [totalPages EXCEPT ![s] = 1]
    /\ LoopTop(s, 1)
    /\ UNCHANGED <<receivedParams, propertyPromises, result, pagesParsed, pagesGivenUp>>
    /\ UNCHANGED notSearchVars

\* if (!htmlData): page 1 ends the search with an error, a later page ends
\* the loop
NoHtml_Continue(s) ==
    /\ attempt' = [attempt EXCEPT ![s] = 0]
    /\ sPc' = [sPc EXCEPT ![s] = "awaitAll"]
    /\ UNCHANGED result
    /\ UNCHANGED <<receivedParams, currentPage, totalPages, propertyPromises,
                   pagesRequested, pagesParsed>>

\* (mutant) a page without html ends the search with an error on every page
NoHtml_Fatal(s) ==
    /\ attempt' = [attempt EXCEPT ![s] = 0]
    /\ result' = [result EXCEPT ![s] = InitialPageError(receivedParams[s])]
    /\ sPc' = [sPc EXCEPT ![s] = "done"]
    /\ UNCHANGED <<receivedParams, currentPage, totalPages, propertyPromises,
                   pagesRequested, pagesParsed>>

NoHtml(s) ==
    /\ attempt' = [attempt EXCEPT ![s] = 0]
    /\ IF currentPage[s] = 1
         THEN /\ result' = [result EXCEPT ![s] = InitialPageError(receivedParams[s])]
              /\ sPc' = [sPc EXCEPT ![s] = "done"]
         ELSE /\ sPc' = [sPc EXCEPT ![s] = "awaitAll"]
              /\ UNCHANGED result
    /\ UNCHANGED <<receivedParams, currentPage, totalPages, propertyPromises,
                   pagesRequested, pagesParsed>>

\* the catch of a page request: give up after the last attempt, else wait
PageRequestFails(s) ==
    /\ sPc[s] = "pageRequest"
    /\ IF attempt[s] > MAX_FETCH_RETRIES
         THEN /\ NoHtml(s)
              /\ pagesGivenUp' = [pagesGivenUp EXCEPT ![s] = Append(@, currentPage[s])]
         ELSE /\ sPc' = [sPc EXCEPT ![s] = "retryDelay"]
              /\ UNCHANGED <<receivedParams, currentPage, totalPages, attempt,
                             propertyPromises, result, pagesRequested, pagesParsed,
                             pagesGivenUp>>
    /\ UNCHANGED notSearchVars

\* (mutant) the retry does not count its attempts
RetryDelayElapsed_SameAttempt(s) ==
    /\ sPc[s] = "retryDelay"
    /\ sPc' = [sPc EXCEPT ![s] = "pageRequest"]
    /\ UNCHANGED <<receivedParams, currentPage, totalPages, attempt, propertyPromises,
                   result, pagesRequested, pagesParsed, pagesGivenUp>>
    /\ UNCHANGED notSearchVars

\* delay(RETRY_DELAY_MS) is over: the next attempt
RetryDelayElapsed(s) ==
    /\ sPc[s] = "retryDelay"
    /\ attempt' = [attempt EXCEPT ![s] = attempt[s] + 1]
    /\ sPc' = [sPc EXCEPT ![s] = "pageRequest"]
    /\ UNCHANGED <<receivedParams, currentPage, totalPages, propertyPromises,
                   result, pagesRequested, pagesParsed, pagesGivenUp>>
    /\ UNCHANGED notSearchVars

\* a response with an empty body: fetchPageHTML returns '' and !htmlData holds
PageEmptyBody(s) ==
    /\ sPc[s] = "pageRequest"
    /\ [kind |-> "empty"] \in PageBodies(site, currentPage[s])
    /\ NoHtml(s)
    /\ UNCHANGED pagesGivenUp
    /\ UNCHANGED notSearchVars

\* an exception while the page is processed: the catch block of the search
PageBroken(s) ==
    /\ sPc[s] = "pageRequest"
    /\ [kind |-> "broken"] \in PageBodies(site, currentPage[s])
    /\ result' = [result EXCEPT ![s] = CaughtError(receivedParams[s])]
    /\ attempt' = [attempt EXCEPT ![s] = 0]
    /\ sPc' = [sPc EXCEPT ![s] = "done"]
    /\ UNCHANGED <<receivedParams, currentPage, totalPages, propertyPromises,
                   pagesRequested, pagesParsed, pagesGivenUp>>
    /\ UNCHANGED notSearchVars

\* totalPages after the body of page currentPage was looked at
NextTotalPages_EveryPage(s, body) == Page1TotalPages(body.totalResultsString)

NextTotalPages(s, body) ==
    IF currentPage[s] = 1 THEN Page1TotalPages(body.totalResultsString) ELSE totalPages[s]

\* (mutant) a page without results container does not end the loop
BreaksLoop_IgnoreList(s, body, total) ==
    \/ body.hasResultsList /\ Len(body.cards) = 0 /\ currentPage[s] > 1
    \/ body.hasResultsList /\ Len(body.cards) = 0 /\ currentPage[s] = 1 /\ total > 1

\* the loop is left before the cards are extracted
BreaksLoop(s, body, total) ==
    \/ ~body.hasResultsList
    \/ Len(body.cards) = 0 /\ currentPage[s] > 1
    \/ Len(body.cards) = 0 /\ currentPage[s] = 1 /\ total > 1

\* while (currentPage <= totalPages), after currentPage++
LoopGoesOn_NoLimit(page, total) == TRUE

LoopGoesOn(page, total) == page <= total

\* the loop is over: the tasks are awaited
LoopLeft(s) ==
    /\ sPc' = [sPc EXCEPT ![s] = "awaitAll"]
    /\ attempt' = [attempt EXCEPT ![s] = 0]
    /\ UNCHANGED pagesRequested

\* the body of the loop from the page count on, and the loop test
PageExtracted(s, body, n, total, tasks) ==
    /\ InFlight(propertyPromises[s] \o tasks) <= MaxDetail
    /\ totalPages' = [totalPages EXCEPT ![s] = total]
    /\ IF BreaksLoop(s, body, total)
         THEN /\ LoopLeft(s)
              /\ UNCHANGED <<currentPage, propertyPromises, pagesParsed>>
         ELSE /\ propertyPromises' = [propertyPromises EXCEPT ![s] = @ \o tasks]
              /\ pagesParsed' = [pagesParsed EXCEPT ![s] = Append(@, n)]
              /\ currentPage' = [currentPage EXCEPT ![s] = n + 1]
              /\ IF LoopGoesOn(n + 1, total) THEN LoopTop(s, n + 1) ELSE LoopLeft(s)

\* a results page arrives: totalPages on page 1, the cards are extracted and
\* their detail requests issued, currentPage++, and the loop test
PageParsed(s) ==
    /\ sPc[s] = "pageRequest"
    /\ \E body \in PageBodies(site, currentPage[s]) :
        /\ body.kind = "html"
        /\ PageExtracted(s, body, currentPage[s], NextTotalPages(s, body),
                         [i \in 1..Len(body.cards) |-> NewTask(currentPage[s], i, body.cards[i])])
    /\ UNCHANGED <<receivedParams, result, pagesGivenUp>>
    /\ UNCHANGED notSearchVars

\* delay(1500) before a page after the first is over: the page is requested
PageDelayElapsed(s) ==
    /\ sPc[s] = "pageDelay"
    /\ RequestPage(s, currentPage[s])
    /\ UNCHANGED <<receivedParams, currentPage, totalPages, propertyPromises,
                   result, pagesParsed, pagesGivenUp>>
    /\ UNCHANGED notSearchVars

\* the detail request of one listing is answered and its task settles
DetailSettles(s) ==
    /\ sPc[s] \notin {"off", "idle", "done"}
    /\ \E k \in 1..Len(propertyPromises[s]) :
        /\ propertyPromises[s][k].state = "pending"
        /\ \E answer \in DetailAnswers(site) :
            LET task == propertyPromises[s][k]
            IN  propertyPromises' = [propertyPromises EXCEPT ![s][k] =
                    [task EXCEPT
                        !.state = "fulfilled",
                        !.answer = answer]]
    /\ UNCHANGED <<sPc, receivedParams, currentPage, totalPages, attempt,
                   result, pagesRequested, pagesParsed, pagesGivenUp>>
    /\ UNCHANGED notSearchVars

\* (mutant) the search returns without waiting for its pending tasks
SearchReturns_Early(s) ==
    /\ sPc[s] = "awaitAll"
    /\ result' = [result EXCEPT ![s] = SearchSuccess(propertyPromises[s], receivedParams[s])]
    /\ sPc' = [sPc EXCEPT ![s] = "done"]
    /\ UNCHANGED <<receivedParams, currentPage, totalPages, attempt,
                   propertyPromises, pagesRequested, pagesParsed, pagesGivenUp>>
    /\ UNCHANGED notSearchVars

\* Promise.all is fulfilled: flatten, filter, return
SearchReturns(s) ==
    /\ sPc[s] = "awaitAll"
    /\ \A k \in 1..Len(propertyPromises[s]) : propertyPromises[s][k].state = "fulfilled"
    /\ result' = [result EXCEPT ![s] = SearchSuccess(propertyPromises[s], receivedParams[s])]
    /\ sPc' = [sPc EXCEPT ![s] = "done"]
    /\ UNCHANGED <<receivedParams, currentPage, totalPages, attempt,
                   propertyPromises, pagesRequested, pagesParsed, pagesGivenUp>>
    /\ UNCHANGED notSearchVars

\* ------------------------------------------------------------------------
\* server.ts: the tool handlers and the HTTP routes of startServer
\* ------------------------------------------------------------------------
\* the tools registered with server.tool
Tools == {"search_rental_properties", "get_rental_property_details", "parse_query"}

\* raw values of a tool input: a JSON value with its type
Str(v) == [type |-> "string", value |-> v]
Num(v) == [type |-> "number", value |-> v]

\* a field of a z.object schema: the types accepted, and .optional()
Required(types) == [types |-> types, optional |-> FALSE]
Optional(types) == [types |-> types, optional |-> TRUE]

SearchRentalPropertiesInputSchema ==
    [location |-> Optional({"string", "string[]"}),
     minPrice |-> Optional({"number"}),
     maxPrice |-> Optional({"number"}),
     numBeds |-> Optional({"number"}),
     propertyType |-> Optional({"string"})]

GetRentalPropertyDetailsInputSchema == [property_id |-> Required({"string"})]

ParseQueryInputSchema == [query |-> Required({"string"})]

InputSchema(tool) ==
    CASE tool = "search_rental_properties" -> SearchRentalPropertiesInputSchema
      [] tool = "get_rental_property_details" -> GetRentalPropertyDetailsInputSchema
      [] tool = "parse_query" -> ParseQueryInputSchema

\* the fields of the input the schema rejects: a value of a wrong type, or a
\* required field that is missing
FieldErrors(schema, input) ==
    {f \in DOMAIN schema :
        IF f \in DOMAIN input THEN input[f].type \notin schema[f].types
        ELSE ~schema[f].optional}

\* schema.safeParse(input): success and the data (the known keys), or the
\* field errors
safeParse(schema, input) ==
    IF FieldErrors(schema, input) = {}
      THEN [success |-> TRUE,
            data |-> [f \in DOMAIN schema \cap DOMAIN input |-> input[f]]]
      ELSE [success |-> FALSE, fieldErrors |-> FieldErrors(schema, input)]

\* new ValidationError('Invalid parameters received.', fieldErrors)
ValidationError(details) ==
    [class |-> "ValidationError", type |-> "ValidationError",
     message |-> "Invalid parameters received.", details |-> details]

\* new ScraperError(message)
ScraperError(message) == [class |-> "ScraperError", type |-> "ScraperError", message |-> message]

\* new Error(message)
PlainError(message) == [class |-> "Error", message |-> message]

\* a thrown value that is no Error
ThrownString == [class |-> "string"]

\* the classes that extend AppError
AppErrorClasses == {"ApiError", "ScraperError", "ValidationError", "AuthError"}

\* createErrorResponse(error, toolName, receivedParams)
createErrorResponse(error, tool, input) ==
    [content |->
        IF error.class = "ValidationError"
          THEN [errorType |-> error.type, toolName |-> tool, message |-> error.message,
                details |-> error.details, receivedParams |-> input]
        ELSE IF error.class \in AppErrorClasses
          THEN [errorType |-> error.type, toolName |-> tool, message |-> error.message,
                receivedParams |-> input]
        ELSE IF error.class = "Error"
          THEN [errorType |-> "UnhandledError", toolName |-> tool,
                message |-> <<"An unexpected error occurred: ", error.message>>,
                receivedParams |-> input]
        ELSE [errorType |-> "UnknownError", toolName |-> tool,
              message |-> "An unknown error occurred.", receivedParams |-> input],
     isError |-> TRUE]

\* (mutant) the handler has no catch clause: the error rejects its promise
HandlerCatch_Rethrow(error, tool, input) == [rejected |-> error]

\* catch (error) { return createErrorResponse(error, '<tool>', extra); }
HandlerCatch(error, tool, input) == createErrorResponse(error, tool, input)

\* the raw inputs offered to each tool
ToolInputs(tool) ==
    CASE tool = "search_rental_properties" ->
            {<<>>, [location |-> Str("Dublin")], [location |-> Num("123")],
             [location |-> Str("Dublin"), maxPrice |-> Num("2000")],
             [location |-> Str("Dublin"), maxPrice |-> Str("cheap")]}
      [] tool = "get_rental_property_details" ->
            {<<>>, [property_id |-> Str("123")], [property_id |-> Num("123")]}
      [] tool = "parse_query" ->
            {<<>>, [query |-> Str("a query")], [query |-> Num("123")],
             [query |-> Str("a query"), verbose |-> Str("yes")]}

\* what the tool's service may return, and what the handler makes of it:
\* the two services of the listing tools return a tool response, a plain one
\* or their own error result; parse_query wraps the parsed parameters
ServiceResults(tool) ==
    CASE tool = "search_rental_properties" ->
            {[content |-> "properties"], [content |-> "error", isError |-> TRUE]}
      [] tool = "get_rental_property_details" ->
            {[content |-> "details"], [content |-> "error", isError |-> TRUE]}
      [] tool = "parse_query" ->
            {[content |-> [location |-> "Dublin"]], [content |-> <<>>]}

\* what the tool's service may raise: parseQueryWithLLM wraps every failure in
\* a ScraperError; the other two are awaited promises that may reject
ServiceFailures(tool) ==
    IF tool = "parse_query"
      THEN {ScraperError("LLM did not return a valid JSON object."),
            ScraperError("An unknown error occurred during query parsing.")}
      ELSE {PlainError("Scraper failed"), ThrownString}

\* the argument the service is called with
ServiceArgument(tool, data) == IF tool = "parse_query" THEN data.query ELSE data

ToolIdle ==
    /\ toolPc = "idle"
    /\ toolName = NoValue
    /\ extra = NoValue
    /\ serviceCalls = <<>>
    /\ raised = NoValue
    /\ response = NoValue

\* the handler of a tool is called: safeParse, then the ValidationError is
\* thrown and caught, or the service is called and awaited
ToolCalled(tool, input) ==
    /\ toolPc \in {"idle", "done"}
    /\ toolName' = tool
    /\ extra' = input
    /\ LET parseResult == safeParse(InputSchema(tool), input)
       IN  IF ~parseResult.success
             THEN /\ raised' = ValidationError(parseResult.fieldErrors)
                  /\ response' = HandlerCatch(ValidationError(parseResult.fieldErrors), tool, input)
                  /\ serviceCalls' = <<>>
                  /\ toolPc' = "done"
             ELSE /\ raised' = NoValue
                  /\ response' = NoValue
                  /\ serviceCalls' = <<ServiceArgument(tool, parseResult.data)>>
                  /\ toolPc' = "service"
    /\ UNCHANGED httpVars
    /\ UNCHANGED notServerVars

\* the service returns: the handler returns its value
ServiceReturns ==
    /\ toolPc = "service"
    /\ \E value \in ServiceResults(toolName) : response' = value
    /\ toolPc' = "done"
    /\ UNCHANGED <<toolName, extra, serviceCalls, raised>>
    /\ UNCHANGED httpVars
    /\ UNCHANGED notServerVars

\* the service raises: the catch clause of the handler
ServiceRaises ==
    /\ toolPc = "service"
    /\ \E error \in ServiceFailures(toolName) :
        /\ raised' = error
        /\ response' = HandlerCatch(error, toolName, extra)
    /\ toolPc' = "done"
    /\ UNCHANGED <<toolName, extra, serviceCalls>>
    /\ UNCHANGED httpVars
    /\ UNCHANGED notServerVars

\* the transport created for the n-th connection, and the session a client
\* of that connection posts with
TransportOf(n) == [sessionId |-> n]

\* a POST that names no connection
NoSession == NoValue

HttpIdle ==
    /\ transport = NoValue
    /\ connections = 0
    /\ posted = <<>>

\* app.get('/sse'): transport = new SSEServerTransport('/message', res);
\* server.connect(transport)
GetSse ==
    /\ connections < MaxConnections
    /\ connections' = connections + 1
    /\ transport' = TransportOf(connections + 1)
    /\ UNCHANGED posted
    /\ UNCHANGED toolVars
    /\ UNCHANGED notServerVars

\* app.post('/message'): if (transport) transport.handlePostMessage(...)
\* else res.status(400)
PostMessageOf(session) ==
    IF transport # NoValue
      THEN [session |-> session, open |-> connections,
            handledBy |-> transport, status |-> "transport"]
      ELSE [session |-> session, open |-> connections,
            handledBy |-> NoValue, status |-> "400"]

\* a client posts a message: with the session of its open connection, or with
\* none
PostMessage ==
    /\ Len(posted) < MaxPosts
    /\ \E session \in {TransportOf(n) : n \in 1..connections} \cup {NoSession} :
        posted' = Append(posted, PostMessageOf(session))
    /\ UNCHANGED <<transport, connections>>
    /\ UNCHANGED toolVars
    /\ UNCHANGED notServerVars

ServerIdle == ToolIdle /\ HttpIdle

\* ------------------------------------------------------------------------
\* Specifications
\* ------------------------------------------------------------------------
\* the page fetcher of fetch.service.ts, called again and again
FetchInit == FetchIdle /\ PagesIdle /\ SearchOff /\ FilterIdle /\ PriceIdle /\ ServerIdle
FetchNext == FetchAction
SpecFetch == FetchInit /\ [][FetchNext]_vars

\* getTotalPages on every text of TotalTexts
PagesInit ==
    /\ ServerIdle
    /\ FetchIdle
    /\ SearchOff
    /\ FilterIdle
    /\ PriceIdle
    /\ tpText \in TotalTexts
    /\ tpResult = NoValue
PagesNext == GetTotalPagesCall
SpecPages == PagesInit /\ [][PagesNext]_vars

\* both filters on every record and every combination of criteria offered
FilterInit ==
    /\ ServerIdle
    /\ FetchIdle
    /\ PagesIdle
    /\ SearchOff
    /\ PriceIdle
    /\ flRecord \in FilterRecords
    /\ flFilters \in FilterCriteria
    /\ flResult = NoValue
FilterNext == FilterCall
SpecFilter == FilterInit /\ [][FilterNext]_vars

\* parsePrice on every price text offered, alone and on a card with a unit
PriceInit ==
    /\ ServerIdle
    /\ FetchIdle
    /\ PagesIdle
    /\ SearchOff
    /\ FilterIdle
    /\ prText \in PriceTexts
    /\ prUnitText \in UnitPriceTexts
    /\ prResult = NoValue
PriceNext == PriceCall
SpecPrice == PriceInit /\ [][PriceNext]_vars

\* the server: tool calls, SSE connections and posted messages
ServerInit ==
    /\ FetchIdle
    /\ PagesIdle
    /\ SearchOff
    /\ FilterIdle
    /\ PriceIdle
    /\ ServerIdle
ServerNext ==
    \/ \E tool \in Tools : \E input \in ToolInputs(tool) : ToolCalled(tool, input)
    \/ ServiceReturns
    \/ ServiceRaises
    \/ GetSse
    \/ PostMessage
SpecServer == ServerInit /\ [][ServerNext]_vars

\* one search, on every site the bounds allow
Init ==
    /\ ServerIdle
    /\ FetchIdle
    /\ PagesIdle
    /\ FilterIdle
    /\ PriceIdle
    /\ sPc = [s \in SearchIds |-> IF s = "s1" THEN "idle" ELSE "off"]
    /\ receivedParams \in {[s \in SearchIds |-> IF s = "s1" THEN p ELSE NoValue] : p \in SearchParams}
    /\ currentPage = [s \in SearchIds |-> 1]
    /\ totalPages = [s \in SearchIds |-> 1]
    /\ attempt = [s \in SearchIds |-> 0]
    /\ propertyPromises = [s \in SearchIds |-> <<>>]
    /\ result = [s \in SearchIds |-> NoValue]
    /\ pagesRequested = [s \in SearchIds |-> <<>>]
    /\ pagesParsed = [s \in SearchIds |-> <<>>]
    /\ pagesGivenUp = [s \in SearchIds |-> <<>>]
    /\ site \in Sites
Next ==
    \E s \in SearchIds :
        \/ SearchStart(s)
        \/ PageRequestFails(s)
        \/ RetryDelayElapsed(s)
        \/ PageEmptyBody(s)
        \/ PageBroken(s)
        \/ PageParsed(s)
        \/ PageDelayElapsed(s)
        \/ DetailSettles(s)
        \/ SearchReturns(s)
Spec == Init /\ [][Next]_vars

\* the steps of one search
SearchStep(s) ==
    \/ SearchStart(s)
    \/ PageRequestFails(s)
    \/ RetryDelayElapsed(s)
    \/ PageEmptyBody(s)
    \/ PageBroken(s)
    \/ PageParsed(s)
    \/ PageDelayElapsed(s)
    \/ DetailSettles(s)
    \/ SearchReturns(s)

\* the parameters of the second of two concurrent searches
SecondParams ==
    [location |-> NoLocation, min_price |-> UndefNum, max_price |-> IntNum(1000),
     num_beds |-> UndefNum, property_type |-> Undef]

\* two searches called one after the other without awaiting the first: their
\* steps interleave
PairInit ==
    /\ ServerIdle
    /\ FetchIdle
    /\ PagesIdle
    /\ FilterIdle
    /\ PriceIdle
    /\ sPc = [s \in SearchIds |-> "idle"]
    /\ receivedParams \in {[s \in SearchIds |-> IF s = "s1" THEN p ELSE SecondParams] : p \in SearchParams}
    /\ currentPage = [s \in SearchIds |-> 1]
    /\ totalPages = [s \in SearchIds |-> 1]
    /\ attempt = [s \in SearchIds |-> 0]
    /\ propertyPromises = [s \in SearchIds |-> <<>>]
    /\ result = [s \in SearchIds |-> NoValue]
    /\ pagesRequested = [s \in SearchIds |-> <<>>]
    /\ pagesParsed = [s \in SearchIds |-> <<>>]
    /\ pagesGivenUp = [s \in SearchIds |-> <<>>]
    /\ site = PairSite
SpecPair == PairInit /\ [][Next]_vars

\* the two searches under the assumption that every request is answered (by
\* a response, a failure or the timeout of the request), that every delay
\* elapses, and that a continuation that can run does run: a search that can
\* take a step takes one
LiveSpec == SpecPair /\ \A s \in SearchIds : WF_vars(SearchStep(s))

\* ------------------------------------------------------------------------
\* Properties of the page fetcher (SpecFetch)
\* ------------------------------------------------------------------------
CountIn(seq, x) == Cardinality({i \in 1..Len(seq) : seq[i] = x})

\* the number of requests issued up to position i of the trace
GetsUpTo(seq, i) == Cardinality({j \in 1..i : seq[j] = "get"})

FailTags == {"httpError", "noResponse", "nonAxios"}

C5_NotFoundReturnsEmpty ==
    \A i \in 1..Len(fTrace) :
        fTrace[i] = "404" =>
            /\ i = Len(fTrace)
            /\ fPc = "returned"
            /\ fResult = ""

\* a 404 on the third attempt
C5_Witness ==
    /\ Len(fTrace) > 0
    /\ fTrace[Len(fTrace)] = "404"
    /\ fAttempt = maxFetchRetries + 1
    /\ fPc = "returned"

\* ------------------------------------------------------------------------
\* Properties of the page count (SpecPages)
\* ------------------------------------------------------------------------
\* The number a reader takes from "of N total results": the digits between
\* "of" and "total results", commas dropped; NoValue when the text has no
\* such phrase or no digit in it.
NoTotal == 0 - 1
ReportedTotal(s) ==
    LET m == TotalMatch(s)
    IN  IF m = NoValue THEN NoTotal
        ELSE LET ds == RemoveChar(m.group, ",")
             IN  IF ds = <<>> THEN NoTotal ELSE DigitsValue(ds, 0)

ExpectedPages(s, cap) ==
    IF ReportedTotal(s) = NoTotal THEN 1
    ELSE LET n == ReportedTotal(s)
             c == IF n % 20 = 0 THEN n \div 20 ELSE (n \div 20) + 1
         IN  IF c < cap THEN c ELSE cap

\* C7: the page count derived from page 1 is min(ceil(N/20), maximum) when
\* the text carries a parsable "of N total results", and 1 when the phrase is
\* absent or unparsable; by getTotalPages and by the search loop alike.
C7_TotalPages ==
    tpResult # NoValue =>
        /\ tpResult.service = ExpectedPages(tpText, maxPagesToFetch)
        /\ tpResult.loop = ExpectedPages(tpText, MAX_PAGES_TO_FETCH)

\* "of 45 total results" was given and 3 pages were derived
C7_Witness ==
    /\ tpResult # NoValue
    /\ tpText = <<"o", "f", " ", "4", "5", " ">> \o TotalResultsLit
    /\ tpResult.service = 3
    /\ tpResult.loop = 3

\* ------------------------------------------------------------------------
\* Properties of the search (Spec)
\* ------------------------------------------------------------------------
\* the stages an error result may name
FailingStages ==
    {"handleSearchRentalPropertiesScraping.fetchPageHTML", "handleSearchRentalPropertiesScraping"}

\* an error result: the flag set, one structured error naming the stage and
\* carrying the parameters of the call, and no record list
IsErrorResult(r, params) ==
    /\ DOMAIN r = {"content", "isError"}
    /\ r.isError = TRUE
    /\ DOMAIN r.content = {"errorType", "sourceFunction", "details"}
    /\ r.content.sourceFunction \in FailingStages
    /\ r.content.details.receivedParams = params

\* a success result: a record list and no flag
IsSuccessResult(r) ==
    /\ DOMAIN r = {"content"}
    /\ DOMAIN r.content = {"properties"}

\* the records of all tasks pushed so far, in order, before the filter
Gathered(s) == Flat([k \in 1..Len(propertyPromises[s]) |-> TaskValue(propertyPromises[s][k])])

Counts(seq) == \A j \in 1..Len(seq) : seq[j] = j

C2_LaterPageFailureTruncates ==
    \A s \in SearchIds :
        (pagesGivenUp[s] # <<>> /\ pagesGivenUp[s][1] > 1) =>
            /\ Len(pagesGivenUp[s]) = 1
            /\ sPc[s] \in {"awaitAll", "done"}
            /\ Len(pagesRequested[s]) = pagesGivenUp[s][1]
            /\ Counts(pagesRequested[s])
            /\ Len(pagesParsed[s]) = pagesGivenUp[s][1] - 1
            /\ Counts(pagesParsed[s])
            /\ \A k \in 1..Len(propertyPromises[s]) :
                   propertyPromises[s][k].page < pagesGivenUp[s][1]
            /\ sPc[s] = "done" =>
                   /\ IsSuccessResult(result[s])
                   /\ result[s].content.properties =
                          SelectSeq(Gathered(s), LAMBDA p : KeepProperty(p, receivedParams[s]))

\* page 2 was given up and the search returned some, not all, records of page 1
C2_Witness ==
    /\ pagesGivenUp["s1"] = <<2>>
    /\ sPc["s1"] = "done"
    /\ Len(result["s1"].content.properties) > 0
    /\ Len(result["s1"].content.properties) < Len(Gathered("s1"))

PagesInOrder(s) ==
    /\ Counts(pagesRequested[s])
    /\ Counts(pagesParsed[s])
    /\ Len(pagesRequested[s]) <= MAX_PAGES_TO_FETCH
    /\ sPc[s] \notin {"off", "idle"} => Len(pagesRequested[s]) >= 1
    /\ Len(pagesParsed[s]) <= Len(pagesRequested[s])
    /\ Len(pagesRequested[s]) <= Len(pagesParsed[s]) + 1
    /\ Len(pagesRequested[s]) > 1 => Len(pagesRequested[s]) <= totalPages[s]

\* totalPages is not assigned once the cards of page 1 were extracted or a
\* later page was requested
TotalPagesFixed(s) ==
    (pagesParsed[s] # <<>> \/ Len(pagesRequested[s]) > 1) => totalPages'[s] = totalPages[s]

\* C6: the results pages of a search are fetched one at a time in the order
\* 1, 2, 3, ... without gaps; page n > 1 is fetched only after page n-1 was
\* fetched and parsed and only if n <= totalPages, which is fixed from page 1
\* and not changed by a later page; no page above 5 is fetched.
C6_SequentialPages ==
    /\ [](\A s \in SearchIds : PagesInOrder(s))
    /\ [][\A s \in SearchIds : TotalPagesFixed(s)]_vars

\* all five pages were fetched and parsed
C6_Witness ==
    /\ pagesRequested["s1"] = <<1, 2, 3, 4, 5>>
    /\ pagesParsed["s1"] = <<1, 2, 3, 4, 5>>
    /\ totalPages["s1"] = MAX_PAGES_TO_FETCH
    /\ sPc["s1"] = "done"

\* the record of a listing whose detail request failed: its results-page
\* data when it has id, url and address
DegradedRecord(task) ==
    IF Truthy(TaskProperty(task).id) /\ Truthy(TaskProperty(task).url) /\ Truthy(TaskProperty(task).address)
      THEN <<TaskProperty(task)>>
      ELSE <<>>

DetailFailed(task) == task.state = "fulfilled" /\ task.answer = FailedAnswer

\* a step leaves the settled tasks as they are and, when it settles a task,
\* neither ends the search nor changes its position
SettlingIsLocal(s) ==
    /\ \A k \in 1..Len(propertyPromises[s]) :
           propertyPromises[s][k].state = "fulfilled" =>
               propertyPromises'[s][k] = propertyPromises[s][k]
    /\ (\E k \in 1..Len(propertyPromises[s]) : propertyPromises'[s][k] # propertyPromises[s][k]) =>
           /\ result'[s] = result[s]
           /\ sPc'[s] = sPc[s]
           /\ Cardinality({k \in 1..Len(propertyPromises[s]) :
                              propertyPromises'[s][k] # propertyPromises[s][k]}) = 1

DegradedEmitted(s) ==
    /\ \A k \in 1..Len(propertyPromises[s]) :
           DetailFailed(propertyPromises[s][k]) =>
               TaskValue(propertyPromises[s][k]) = DegradedRecord(propertyPromises[s][k])
    /\ (sPc[s] = "done" /\ IsSuccessResult(result[s])) =>
           \A k \in 1..Len(propertyPromises[s]) :
               (/\ DetailFailed(propertyPromises[s][k])
                /\ DegradedRecord(propertyPromises[s][k]) # <<>>
                /\ KeepProperty(TaskProperty(propertyPromises[s][k]), receivedParams[s])) =>
                   \E j \in 1..Len(result[s].content.properties) :
                       result[s].content.properties[j] = TaskProperty(propertyPromises[s][k])

\* C8: when the detail request or enrichment of a listing fails, the listing
\* is emitted with its results-page data (if it has id, url and address), the
\* records of the other listings are as they were, and the search does not
\* fail.
C8_DetailFailureDegrades ==
    /\ [](\A s \in SearchIds : DegradedEmitted(s))
    /\ [][\A s \in SearchIds : SettlingIsLocal(s)]_vars

\* a search returned the results-page record of a listing whose detail
\* request failed, next to the records of a listing whose detail page arrived
C8_Witness ==
    /\ sPc["s1"] = "done"
    /\ IsSuccessResult(result["s1"])
    /\ \E k, m \in 1..Len(propertyPromises["s1"]) :
           /\ DetailFailed(propertyPromises["s1"][k])
           /\ \E j \in 1..Len(result["s1"].content.properties) :
                  result["s1"].content.properties[j] = TaskProperty(propertyPromises["s1"][k])
           /\ propertyPromises["s1"][m].answer.kind = "page"
           /\ TaskValue(propertyPromises["s1"][m]) # <<>>

\* the anchors of the detail page a task was answered with
AnchorsOf(task) == SubUnitAnchors(task.answer.anchors, task.page, task.index)

\* an anchor yields id, url, address and price text
AnchorYields(a, property) ==
    /\ Truthy(a.href)
    /\ Truthy(LastSegment(a.href))
    /\ Truthy(property.address)
    /\ Truthy(Trim(a.title))

YieldingAnchors(anchors, property) == SelectSeq(anchors, LAMBDA a : AnchorYields(a, property))

\* the coordinates of the map link of a detail page
DetailCoordinates == extractLatLng(DetailMapHref)

\* the parent's coordinates: those of its detail page when it has a map
\* link, else those of its card
ParentCoordinates(task, property) ==
    IF task.answer.hasMap
      THEN [latitude |-> DetailCoordinates.lat, longitude |-> DetailCoordinates.lng]
      ELSE [latitude |-> property.latitude, longitude |-> property.longitude]

OneRecordPerAnchor(records, yielding, property, parent) ==
    /\ Len(records) = Len(yielding)
    /\ \A m \in 1..Len(yielding) :
           /\ records[m].id = LastSegment(yielding[m].href)
           /\ records[m].url = baseUrl \o yielding[m].href
           /\ records[m].priceString = Trim(yielding[m].title)
           /\ records[m].address = property.address
           /\ records[m].tagline = property.tagline
           /\ records[m].latitude = parent.latitude
           /\ records[m].longitude = parent.longitude
           /\ records[m].id # property.id
           /\ ~records[m].units.present

Flattened(task, property) ==
    OneRecordPerAnchor(TaskValue(task), YieldingAnchors(AnchorsOf(task), property),
                       property, ParentCoordinates(task, property))

IsDevelopment(task) ==
    task.state = "fulfilled" /\ task.answer.kind = "page" /\ Len(task.answer.anchors) > 0

\* C9: a listing whose detail page has sub-unit anchors contributes exactly
\* one record per anchor that yields id, url, address and price text, in the
\* order of the anchors, each with the parent's address, tagline and
\* coordinates (3 valid anchors give 3 records); the parent's own record is
\* not emitted, also when no sub-unit is kept.
C9_DevelopmentFlattened ==
    \A s \in SearchIds : \A k \in 1..Len(propertyPromises[s]) :
        IsDevelopment(propertyPromises[s][k]) =>
            Flattened(propertyPromises[s][k], TaskProperty(propertyPromises[s][k]))

\* a development without own price whose page has three valid anchors gave
\* three records
C9_Witness ==
    \E k \in 1..Len(propertyPromises["s1"]) :
        /\ IsDevelopment(propertyPromises["s1"][k])
        /\ propertyPromises["s1"][k].card = "block"
        /\ propertyPromises["s1"][k].answer.anchors = <<"priced", "costly", "priced">>
        /\ Len(TaskValue(propertyPromises["s1"][k])) = 3
        /\ TaskValue(propertyPromises["s1"][k])[3].address =
               TaskProperty(propertyPromises["s1"][k]).address

\* C10: no record in the final output of a search has a units field.
C10_NoUnitsInOutput ==
    \A s \in SearchIds :
        (sPc[s] = "done" /\ IsSuccessResult(result[s])) =>
            \A j \in 1..Len(result[s].content.properties) :
                ~result[s].content.properties[j].units.present

\* a record with the three fields the output needs
Complete(r) == Truthy(r.id) /\ Truthy(r.url) /\ Truthy(r.address)

AllComplete(records) == \A j \in 1..Len(records) : Complete(records[j])

\* a listing lacking one of the three fields, whose detail request was answered
IncompleteListing(task) ==
    /\ task.answer # NoAnswer
    /\ ~Complete(TaskProperty(task))

\* the records of a task that stand for the listing itself
OwnRecords(records, property) == SelectSeq(records, LAMBDA r : r.url = property.url)

\* C11: every record a search gathers, and every record of its output, has a
\* non-empty id, a non-empty url and a non-empty address; a listing lacking
\* one of them is not among the records, whatever its detail page holds.
C11_RecordsComplete ==
    \A s \in SearchIds :
        /\ AllComplete(Gathered(s))
        /\ \A k \in 1..Len(propertyPromises[s]) :
               IncompleteListing(propertyPromises[s][k]) =>
                   OwnRecords(TaskValue(propertyPromises[s][k]),
                              TaskProperty(propertyPromises[s][k])) = <<>>
        /\ (sPc[s] = "done" /\ IsSuccessResult(result[s])) =>
               AllComplete(result[s].content.properties)

\* a search has returned after a card without address, whose detail page
\* listed sub-units with link and price, gave no record
C11_Witness ==
    /\ sPc["s1"] = "done"
    /\ IsSuccessResult(result["s1"])
    /\ \E k \in 1..Len(propertyPromises["s1"]) :
        /\ propertyPromises["s1"][k].card = "anon"
        /\ propertyPromises["s1"][k].answer.kind = "page"
        /\ propertyPromises["s1"][k].answer.anchors = <<"priced", "costly">>
        /\ IncompleteListing(propertyPromises["s1"][k])
        /\ TaskValue(propertyPromises["s1"][k]) = <<>>

\* the tasks a step pushes
Pushed(s) == (Len(propertyPromises[s]) + 1)..Len(propertyPromises'[s])

\* C12: a fixed delay elapses between the extraction of a listing with a url
\* and the start of its detail request: the step that extracts the listing
\* leaves its request unissued, whatever the other requests of the page do.
C12_DelayBeforeDetail ==
    [][\A s \in SearchIds :
          \A k \in Pushed(s) : propertyPromises'[s][k].state # "pending"]_vars

Last(seq) == seq[Len(seq)]

\* the step requests a results page for the first time
PageFirstRequested(s) == Len(pagesRequested'[s]) = Len(pagesRequested[s]) + 1

\* while the delay runs, the page it precedes is a later page, not yet
\* requested, and the page before it was processed
DelayIsBetweenPages(s) ==
    sPc[s] = "pageDelay" =>
        /\ currentPage[s] >= 2
        /\ pagesParsed[s] # <<>>
        /\ Last(pagesParsed[s]) = currentPage[s] - 1
        /\ Last(pagesRequested[s]) = currentPage[s] - 1

\* page 1 is requested by the call itself; a later page n is requested by
\* the step that ends the delay taken after page n-1 was processed
RequestFollowsDelay(s) ==
    PageFirstRequested(s) =>
        IF Last(pagesRequested'[s]) = 1
          THEN sPc[s] = "idle"
          ELSE /\ sPc[s] = "pageDelay"
               /\ Last(pagesParsed[s]) = Last(pagesRequested'[s]) - 1

\* C13: before the fetch of every results page n >= 2 a fixed delay is taken
\* after page n-1 has been processed; no such delay precedes the fetch of
\* page 1.
C13_DelayBeforeLaterPages ==
    /\ [](\A s \in SearchIds : DelayIsBetweenPages(s))
    /\ [][\A s \in SearchIds : RequestFollowsDelay(s)]_vars

\* page 3 is being requested: two delays were taken, after pages 1 and 2
C13_Witness ==
    /\ sPc["s1"] = "pageRequest"
    /\ pagesRequested["s1"] = <<1, 2, 3>>
    /\ pagesParsed["s1"] = <<1, 2>>

\* ------------------------------------------------------------------------
\* Properties of the filters (SpecFilter)
\* ------------------------------------------------------------------------
\* the predicate of every criterion supplied to filterProperties holds
ServiceCriteriaHold(p, filters) ==
    /\ ~FilterPriceFails(p, filters)
    /\ ~FilterBedsFails(p, filters)
    /\ ~FilterTypeFails(p, filters)
    /\ ~FilterLocationFails(p, filters)

\* the predicate of every criterion supplied to the search holds
SearchCriteriaHold(p, params) ==
    PriceOk(p, params) /\ BedsOk(p, params) /\ TypeOk(p, params) /\ LocationOk(p, params)

\* C14: for every record and every combination of supplied criteria (price
\* bounds, bed count, property type, location), location alone included, the
\* record is kept by the filter exactly when the predicate of every supplied
\* criterion holds for it; a criterion not supplied removes nothing.
C14_KeptIffEveryCriterion ==
    flResult # NoValue =>
        /\ flResult.service = ServiceCriteriaHold(flRecord, flFilters)
        /\ flResult.search = SearchCriteriaHold(flRecord, ReceivedParams(flFilters))

\* the area names and postal forms that stand for Ringsend
RingsendAreaNames ==
    { <<"i","r","i","s","h","t","o","w","n">>,
      <<"g","r","a","n","d"," ","c","a","n","a","l"," ","d","o","c","k">>,
      <<"d","u","b","l","i","n"," ","4">>,
      <<"d","u","b","l","i","n"," ","2">> }

InRingsendArea(address) ==
    /\ Truthy(address)
    /\ \/ \E name \in RingsendAreaNames : Includes(toLowerCase(address), name)
       \/ MatchesWord(address, <<"d","4">>)
       \/ MatchesWord(address, <<"d","2">>)

\* the one location asked for is "ringsend", in any letter case
RingsendAsked(filters) ==
    /\ ~filters.location.isArray
    /\ Truthy(filters.location.value)
    /\ Trim(toLowerCase(filters.location.value)) = RingsendLit

\* the criteria other than the location do not remove the record
OtherCriteriaHold(p, filters) ==
    /\ ~FilterPriceFails(p, filters)
    /\ ~FilterBedsFails(p, filters)
    /\ ~FilterTypeFails(p, filters)

\* C15: with the requested location "ringsend", the filter keeps every record
\* whose address contains "irishtown", "grand canal dock", "dublin 4" or the
\* whole word "d4" (or the Dublin 2 forms), also when the address does not
\* contain "ringsend", as far as the other criteria allow.
C15_RingsendSynonyms ==
    (/\ flResult # NoValue
     /\ RingsendAsked(flFilters)
     /\ InRingsendArea(flRecord.address)
     /\ OtherCriteriaHold(flRecord, flFilters)) =>
        flResult.service /\ flResult.search

\* ---- the location predicate as the specification words it
Lower(t) == [i \in 1..Len(t) |-> LowerChar(t[i])]

Contains(t, part) ==
    \E i \in 1..(Len(t) - Len(part) + 1) : \A k \in 1..Len(part) : t[i + k - 1] = part[k]

\* w, which starts and ends with a letter or digit, is in t as a whole word
WholeWord(t, w) ==
    \E i \in 1..(Len(t) - Len(w) + 1) :
        /\ \A k \in 1..Len(w) : t[i + k - 1] = w[k]
        /\ i = 1 \/ t[i - 1] \notin WordChars
        /\ i + Len(w) > Len(t) \/ t[i + Len(w)] \notin WordChars

AllIn(t, from, to, Class) == \A k \in from..to : t[k] \in Class

\* t[from..to] is "dublin", blanks as allowed, and all the digits that follow
DublinDigitsAt(t, from, mid, to, MinBlanks) ==
    /\ mid - from >= 6 + MinBlanks
    /\ to >= mid
    /\ [k \in 1..6 |-> t[from + k - 1]] = <<"d","u","b","l","i","n">>
    /\ AllIn(t, from + 6, mid - 1, Spaces)
    /\ AllIn(t, mid, to, Digits)
    /\ to = Len(t) \/ t[to + 1] \notin Digits

\* a request of the form "dublin <digits>": its digits, else <<>>
DublinForm(req) ==
    LET ends == {mid \in 1..Len(req) : DublinDigitsAt(req, 1, mid, Len(req), 1)}
    IN  IF ends = {} THEN <<>> ELSE SubSeq(req, Min(ends), Len(req))

\* a request that holds "dublin", blanks or none, and digits: the digits of
\* the first such place, else <<>>
DublinPart(req) ==
    LET places == {pl \in (1..Len(req)) \X (1..Len(req)) \X (1..Len(req)) :
                      DublinDigitsAt(req, pl[1], pl[2], pl[3], 0)}
        first == CHOOSE pl \in places : \A other \in places : pl[1] <= other[1]
    IN  IF places = {} THEN <<>> ELSE SubSeq(req, first[2], first[3])

\* the match of one requested location as the claim words it
ClaimedMatch(address, req) ==
    \/ Contains(address, req)
    \/ DublinForm(req) # <<>> /\ WholeWord(address, <<"d">> \o DublinForm(req))

\* the match of one requested location other than "ringsend"
PostalMatch(address, req) ==
    \/ Contains(address, req)
    \/ /\ DublinPart(req) # <<>>
       /\ \/ Contains(address, <<"d","u","b","l","i","n"," ">> \o DublinPart(req))
          \/ WholeWord(address, <<"d">> \o DublinPart(req))

\* one or more non-empty locations are requested
LocationsAsked(filters) ==
    LocationGiven(filters.location) /\ RequestedLocations(filters.location) # <<>>

NoRingsendAsked(filters) ==
    \A k \in 1..Len(RequestedLocations(filters.location)) :
        RequestedLocations(filters.location)[k] # RingsendLit

\* the location predicate is what decides: a call of the search's filter
\* reaches it only when another criterion is supplied
ServiceDecidedByLocation ==
    /\ flResult # NoValue
    /\ LocationsAsked(flFilters)
    /\ OtherCriteriaHold(flRecord, flFilters)
SearchDecidedByLocation ==
    ServiceDecidedByLocation /\ ~noFiltersActive(ReceivedParams(flFilters))

\* the address is non-empty and some requested location matches it
SomeMatch(address, requested, Match(_, _)) ==
    /\ Truthy(address)
    /\ \E k \in 1..Len(requested) : Match(Lower(address), requested[k])

\* (the claim as worded) when one or more non-empty locations are requested,
\* a record passes the location predicate iff its address is non-empty and
\* a requested location is contained in it or, being of the form
\* "dublin <digits>", has its short form "d<digits>" in it as a whole word.
C16_LocationAsWorded ==
    /\ ServiceDecidedByLocation =>
           flResult.service =
               SomeMatch(flRecord.address, RequestedLocations(flFilters.location), ClaimedMatch)
    /\ SearchDecidedByLocation =>
           flResult.search =
               SomeMatch(flRecord.address, RequestedLocations(flFilters.location), ClaimedMatch)

\* C16: when one or more non-empty locations are requested, none of them
\* "ringsend", a record passes the location predicate iff its address is
\* non-empty and a requested location matches it: the address contains it,
\* letter case ignored, or the request holds "dublin <digits>" (blanks
\* optional) and the address contains "dublin <digits>" or, as a whole word,
\* "d<digits>".
C16_LocationPredicate ==
    /\ (ServiceDecidedByLocation /\ NoRingsendAsked(flFilters)) =>
           flResult.service =
               SomeMatch(flRecord.address, RequestedLocations(flFilters.location), PostalMatch)
    /\ (SearchDecidedByLocation /\ NoRingsendAsked(flFilters)) =>
           flResult.search =
               SomeMatch(flRecord.address, RequestedLocations(flFilters.location), PostalMatch)

\* "Dublin 4" was asked for with a price bound: the record at "..., D4" would
\* pass on its location, the record at "5 Elm, D40" was dropped by both filters
C16_Witness ==
    /\ flResult # NoValue
    /\ flFilters.location = Text(<<"D","u","b","l","i","n"," ","4">>)
    /\ flFilters.maxPrice = IntNum(2000)
    /\ flRecord.address = <<"5"," ","E","l","m",","," ","D","4","0">>
    /\ OtherCriteriaHold(flRecord, flFilters)
    /\ ~flResult.service
    /\ ~flResult.search

PriceBoundAsked(filters) == filters.minPrice # UndefNum \/ filters.maxPrice # UndefNum

\* no criterion but price bounds is supplied
OnlyPriceAsked(filters) ==
    /\ PriceBoundAsked(filters)
    /\ filters.numBeds = UndefNum
    /\ filters.propertyType = Undef
    /\ ~LocationGiven(filters.location)

\* the whole monthly value V lies within the bounds supplied, bounds included
WithinBounds(V, filters) ==
    /\ filters.minPrice = UndefNum \/ filters.minPrice.num <= V
    /\ filters.maxPrice = UndefNum \/ V <= filters.maxPrice.num

KeptByBoth == flResult.service /\ flResult.search
DroppedByBoth == ~flResult.service /\ ~flResult.search

\* C17: price bounds are inclusive and apply to numeric prices only: with
\* price bounds alone a record of numeric value V is kept exactly when
\* min <= V <= max for the bounds supplied (kept with min = V and max = V,
\* dropped with min = V+1 or max = V-1); a record outside the bounds, or
\* whose price kind is on_application or unknown, is dropped whenever a
\* bound is supplied, whatever the other criteria.
C17_PriceBoundsInclusive ==
    (flResult # NoValue /\ PriceBoundAsked(flFilters)) =>
        IF flRecord.priceType = "numeric"
          THEN /\ OnlyPriceAsked(flFilters) =>
                      IF WithinBounds(flRecord.parsedPrice.num, flFilters)
                        THEN KeptByBoth ELSE DroppedByBoth
               /\ ~WithinBounds(flRecord.parsedPrice.num, flFilters) => DroppedByBoth
          ELSE DroppedByBoth

\* a record of value 2000 was kept with minPrice = 2000 and maxPrice = 2000
C17_Witness ==
    /\ flResult # NoValue
    /\ OnlyPriceAsked(flFilters)
    /\ flRecord.priceType = "numeric"
    /\ flRecord.parsedPrice = IntNum(2000)
    /\ flFilters.minPrice = IntNum(2000)
    /\ flFilters.maxPrice = IntNum(2000)
    /\ KeptByBoth

\* ------------------------------------------------------------------------
\* Properties of the price parser (SpecPrice)
\* ------------------------------------------------------------------------
\* a non-negative number
NonNegative(v) ==
    /\ v \notin {Null, UndefNum, NaNNum}
    /\ v.den > 0
    /\ v.num >= 0

\* numeric goes with a non-negative value, the other kinds with null
KindFitsValue(type, value) ==
    IF type = "numeric" THEN NonNegative(value)
    ELSE type \in {"on_application", "unknown"} /\ value = Null

RecordsFit(records) ==
    \A k \in 1..Len(records) : KindFitsValue(records[k].priceType, records[k].parsedPrice)

\* C18: every record a step of the pipeline produces (parsePrice at list
\* extraction, the backfill of a card from its first unit, the parsing of a
\* sub-unit of a detail page) has a non-negative monthly value when its
\* price kind is numeric and a null value when it is on_application or
\* unknown.
C18_PriceKindFitsValue ==
    prResult # NoValue =>
        /\ KindFitsValue(prResult.parsed.type, prResult.parsed.value)
        /\ KindFitsValue(prResult.card.priceType, prResult.card.parsedPrice)
        /\ RecordsFit(prResult.card.units.list)
        /\ RecordsFit(prResult.subUnits)

\* a card whose own price text is "Dublin 4" took the price of its unit,
\* "€400 per week", and its detail page gave a sub-unit
C18_Witness ==
    /\ prResult # NoValue
    /\ prText = <<"D","u","b","l","i","n"," ","4">>
    /\ prResult.parsed = PriceUnknown
    /\ prUnitText = <<"€","4","0","0"," ","p","e","r"," ","w","e","e","k">>
    /\ prResult.card.priceType = "numeric"
    /\ prResult.card.parsedPrice = IntNum(1733)
    /\ Len(prResult.card.units.list) = 1
    /\ Len(prResult.subUnits) > 0

\* round(A * 52 / 12): the whole number r with r - 1/2 <= A * 52 / 12 < r + 1/2
RoundedMonthly(A) ==
    CHOOSE r \in (4 * A)..(5 * A) : 12 * r - 6 <= 52 * A /\ 52 * A < 12 * r + 6

\* the monthly value of "€A per p"
ExpectedMonthly(A, p) == IF p \in WeeklyWords THEN RoundedMonthly(A) ELSE A

\* C19: for every whole amount A >= 100 and every period word p of month,
\* week, pm, p/m, pw, p/w, mth, wk, parsePrice of "€A per p" is numeric, with
\* value A for the monthly words (month, pm, p/m, mth) and round(A*52/12)
\* for the weekly words (week, pw, p/w, wk).
C19_PerPeriodValue ==
    prResult # NoValue =>
        \A A \in PriceAmounts, p \in MonthlyWords \cup WeeklyWords :
            prText = PerPeriodText(A, p) =>
                prResult.parsed = [value |-> IntNum(ExpectedMonthly(A, p)), type |-> "numeric"]

\* "€101 per p/w" was parsed: 101 * 52 / 12 = 437.67 gave 438
C19_Witness ==
    /\ prResult # NoValue
    /\ prText = PerPeriodText(101, <<"p","/","w">>)
    /\ prResult.parsed.type = "numeric"
    /\ prResult.parsed.value = IntNum(438)

\* the value of a text of digits and thousands commas
RECURSIVE DigitsNumber(_)
DigitsNumber(t) ==
    IF t = <<>> THEN 0
    ELSE IF t[Len(t)] = "," THEN DigitsNumber(SubSeq(t, 1, Len(t) - 1))
    ELSE 10 * DigitsNumber(SubSeq(t, 1, Len(t) - 1)) + DigitVal(t[Len(t)])

\* what a bare number gives: numeric from 100 on, unknown below
BareNumberPrice(v) ==
    IF v >= 100 THEN [value |-> IntNum(v), type |-> "numeric"]
    ELSE [value |-> Null, type |-> "unknown"]

\* C20: for a text made only of digits, with or without thousands commas,
\* and with no currency symbol and no period word, parsePrice yields numeric
\* with the value of the text if and only if that value is >= 100, and
\* unknown with a null value below 100; "Dublin 4" is unknown as well.
C20_BareNumbers ==
    prResult # NoValue =>
        /\ prText \in DigitTexts \cup CommaTexts =>
               prResult.parsed = BareNumberPrice(DigitsNumber(prText))
        /\ prText = <<"D","u","b","l","i","n"," ","4">> => prResult.parsed = PriceUnknown


\* ------------------------------------------------------------------------
\* Properties of failures and of the tool handlers
\* ------------------------------------------------------------------------
\* the message of the failure raised for a fetcher failure that is no Error
UnknownScrapingMessage == "An unknown error occurred during scraping."

\* the search failed: its promise was rejected with a ScraperError, whose
\* message is the fetcher's own or the one for a value that is no Error
FailedWithScraperError(r) ==
    /\ DOMAIN r = {"rejected"}
    /\ r.rejected.name = "ScraperError"
    /\ r.rejected.message \in {"fetcher", UnknownScrapingMessage}

\* C21: when the page fetcher fails (every attempt at a page failed and the
\* page was given up) the search itself fails with a ScraperError, with the
\* message "An unknown error occurred during scraping." when the fetcher
\* failed with a value that is no Error
C21_FetchFailureFailsSearch ==
    \A s \in SearchIds :
        (sPc[s] = "done" /\ pagesGivenUp[s] # <<>>) => FailedWithScraperError(result[s])

\* the handler settled by returning a response, not by rejecting
Returned(r) == "rejected" \notin DOMAIN r

\* the error response built from the error, the tool name and the raw input,
\* with the error flag set
ErrorResponseFrom(r, error, tool, input) ==
    /\ r = createErrorResponse(error, tool, input)
    /\ r.isError = TRUE
    /\ r.content.toolName = tool
    /\ r.content.receivedParams = input

\* C22: the handler of each registered tool never rejects: when the input
\* fails schema validation the service is not called and the response is the
\* error response built from a validation error, the tool name and the raw
\* input; when the service raises, the response is the error response built
\* from that error, the tool name and the raw input; every such error response
\* has the error flag set
C22_HandlersNeverReject ==
    toolPc = "done" =>
        /\ toolName \in Tools
        /\ Returned(response)
        /\ IF ~safeParse(InputSchema(toolName), extra).success
             THEN /\ serviceCalls = <<>>
                  /\ raised.class = "ValidationError"
                  /\ ErrorResponseFrom(response, raised, toolName, extra)
                  /\ response.content.errorType = "ValidationError"
             ELSE /\ Len(serviceCalls) = 1
                  /\ raised # NoValue => ErrorResponseFrom(response, raised, toolName, extra)

\* parse_query was called with a valid input, its service raised a
\* ScraperError and the handler returned the flagged error response
C22_Witness ==
    /\ toolPc = "done"
    /\ toolName = "parse_query"
    /\ serviceCalls = <<Str("a query")>>
    /\ raised # NoValue
    /\ raised.class = "ScraperError"
    /\ response.isError = TRUE
    /\ response.content.errorType = "ScraperError"

\* C30: a POST /message received before any GET /sse connection exists is
\* answered with status 400 and handled by no transport, and when several SSE
\* connections are open each posted message is handled by the transport of the
\* connection it belongs to, never by another client's transport
C30_MessagesReachOwnTransport ==
    \A i \in 1..Len(posted) :
        /\ posted[i].open = 0 =>
              posted[i].status = "400" /\ posted[i].handledBy = NoValue
        /\ (posted[i].open > 0 /\ posted[i].session # NoSession) =>
              posted[i].handledBy = posted[i].session

\* ------------------------------------------------------------------------
\* Properties of two concurrent searches (SpecPair)
\* ------------------------------------------------------------------------
\* the variables of one search
OwnVars(s) ==
    <<sPc[s], receivedParams[s], currentPage[s], totalPages[s], attempt[s],
      propertyPromises[s], result[s], pagesRequested[s], pagesParsed[s], pagesGivenUp[s]>>

\* what a search returns when it runs alone: an error result carrying its
\* own parameters, or its own records in order filtered by its own parameters
AloneResult(s, r) ==
    \/ IsErrorResult(r, receivedParams[s])
    \/ /\ IsSuccessResult(r)
       /\ r.content.properties = SearchFilter(Gathered(s), receivedParams[s])

\* a step that changes a variable of search s changes no variable of another
\* search
OneSearchSteps ==
    \A s, t \in SearchIds :
        (s # t /\ OwnVars(s)' # OwnVars(s)) => OwnVars(t)' = OwnVars(t)

\* C23: for two searches running concurrently, in every interleaving of their
\* steps each returns the result it would return when run alone against the
\* same responses: no variable written by one search (page counter, total
\* pages, gathered records) is read or written by the other
C23_SearchesIndependent ==
    /\ [](\A s \in SearchIds : sPc[s] = "done" => AloneResult(s, result[s]))
    /\ [][OneSearchSteps]_vars

\* the first search has returned its records while the second, called with
\* other parameters, waits before its second page with one task pushed
C23_Witness ==
    /\ sPc["s1"] = "done"
    /\ IsSuccessResult(result["s1"])
    /\ result["s1"].content.properties # <<>>
    /\ sPc["s2"] = "pageDelay"
    /\ Len(propertyPromises["s2"]) = 1
    /\ receivedParams["s1"] # receivedParams["s2"]

\* ------------------------------------------------------------------------
\* Properties of the backfill of a card's price (SpecPrice)
\* ------------------------------------------------------------------------
\* the price text, value and kind of a record
PriceFields(r) == <<r.priceString, r.parsedPrice, r.priceType>>

\* the card's own price fields, as extracted from its own price text
OwnPrice == CardOwn(PriceCard(prText, prUnitText))

\* the card was extracted and kept at least one sub-unit
CardHasUnits == prResult # NoValue /\ Len(prResult.card.units.list) > 0

\* the card's own price has no value: null, or the number 0
NoOwnValue(own) == own.parsedPrice = Null \/ own.parsedPrice = IntNum(0)

\* the card's price fields are those of its first kept sub-unit if replace
\* holds, and its own otherwise
PriceReplacedIff(replace) ==
    PriceFields(prResult.card) =
        IF replace THEN PriceFields(prResult.card.units.list[1]) ELSE PriceFields(OwnPrice)

\* C24 as worded: during list extraction of a card with sub-units, the
\* card's own price text, value and kind are replaced by those of the first
\* kept sub-unit only when the card's own price kind is unknown; a card whose
\* own price kind is numeric or on_application keeps its own price fields
C24_BackfillOnlyUnknown ==
    CardHasUnits => PriceReplacedIff(OwnPrice.priceType = "unknown")

\* C24 (amended): the card's own price text, value and kind are replaced by
\* those of the first kept sub-unit when the card's own price kind is unknown
\* or its own value is null or 0 (so also when its kind is on_application); a
\* card whose own price kind is numeric with a value other than 0 keeps its
\* own price fields
C24_BackfillWithoutValue ==
    CardHasUnits =>
        PriceReplacedIff(OwnPrice.priceType = "unknown" \/ NoOwnValue(OwnPrice))

\* a card priced "Price on Application" took the price of its unit,
\* "€400 per week"
C24_Witness ==
    /\ CardHasUnits
    /\ OwnPrice.priceType = "on_application"
    /\ prUnitText = <<"€","4","0","0"," ","p","e","r"," ","w","e","e","k">>
    /\ prResult.card.priceType = "numeric"
    /\ prResult.card.parsedPrice = IntNum(1733)
    /\ prResult.card.priceString = prUnitText

\* ------------------------------------------------------------------------
\* Properties of the enrichment from a single-unit detail page (Spec)
\* ------------------------------------------------------------------------
\* the task was answered by a detail page without sub-unit anchors
SingleUnitPage(task) ==
    task.state = "fulfilled" /\ task.answer.kind = "page" /\ task.answer.anchors = <<>>

\* the rating the detail page of the task shows
DetailRating(task) ==
    formatBer(DetailBerText(DetailResponse(task.answer, task.page, task.index)))

\* the record of the task has the rating it had before the enrichment if it
\* had one, and the rating of the detail page otherwise
RatingKept(task) ==
    \A j \in 1..Len(TaskValue(task)) :
        IF Truthy(TaskProperty(task).ber)
          THEN TaskValue(task)[j].ber = TaskProperty(task).ber
          ELSE TaskValue(task)[j].ber = DetailRating(task)

\* C25: enrichment from a single-unit detail page never changes an energy
\* rating that was already set from the results page: the rating is taken
\* from the detail page only when the record has none, and otherwise the
\* record's rating after enrichment equals its rating before
C25_RatingKept ==
    \A s \in SearchIds : \A k \in 1..Len(propertyPromises[s]) :
        SingleUnitPage(propertyPromises[s][k]) => RatingKept(propertyPromises[s][k])

\* a card rated A2 on the results page was enriched from a single-unit detail
\* page that shows another rating, and its record is still rated A2
C25_Witness ==
    \E k \in 1..Len(propertyPromises["s1"]) :
        LET task == propertyPromises["s1"][k]
        IN  /\ SingleUnitPage(task)
            /\ TaskProperty(task).ber = <<"A","2">>
            /\ DetailRating(task) # <<"A","2">>
            /\ Len(TaskValue(task)) = 1
            /\ TaskValue(task)[1].ber = <<"A","2">>

\* ------------------------------------------------------------------------
\* Properties of the early end of the crawl (Spec)
\* ------------------------------------------------------------------------
\* the step in which page currentPage arrives without results container
ContainerAbsent(s) ==
    /\ sPc[s] = "pageRequest"
    /\ \E body \in PageBodies(site, currentPage[s]) :
        /\ body.kind = "html"
        /\ ~body.hasResultsList
        /\ PageExtracted(s, body, currentPage[s], NextTotalPages(s, body), <<>>)

\* the crawl is over without error after page n was fetched: the tasks are
\* awaited, no listing of page n or later was gathered, none if n = 1
StoppedAtPage(s, n, pc, tasks, res, requested) ==
    /\ pc = "awaitAll"
    /\ res = NoValue
    /\ Last(requested) = n
    /\ \A k \in 1..Len(tasks) : tasks[k].page < n
    /\ n = 1 => tasks = <<>>

\* once the crawl is over no page is requested, and the search returns as a
\* success its gathered records, filtered
ReturnsGathered(s) ==
    sPc[s] = "awaitAll" =>
        /\ pagesRequested'[s] = pagesRequested[s]
        /\ Len(propertyPromises'[s]) = Len(propertyPromises[s])
        /\ \/ sPc'[s] = "awaitAll"
           \/ /\ sPc'[s] = "done"
              /\ IsSuccessResult(result'[s])
              /\ result'[s].content.properties = SearchFilter(Gathered(s), receivedParams[s])

ByPageThenCard(tasks) ==
    \A j, k \in 1..Len(tasks) :
        j < k => \/ tasks[j].page < tasks[k].page
                 \/ tasks[j].page = tasks[k].page /\ tasks[j].index < tasks[k].index

\* the position of the anchor a sub-unit record was parsed from: the last
\* character of its url
AnchorPosition(r) == CHOOSE j \in 0..9 : DigitChar(j) = Last(r.url)

\* the sub-unit records of one development are in the order of their anchors
BySubUnit(records) ==
    \A j, k \in 1..Len(records) : j < k => AnchorPosition(records[j]) < AnchorPosition(records[k])

\* the records of every development task are in the order of their anchors
SubUnitsInOrder(tasks) ==
    \A k \in 1..Len(tasks) :
        (tasks[k].answer.kind = "page" /\ Len(tasks[k].answer.anchors) > 0) =>
            BySubUnit(TaskValue(tasks[k]))

AllSettled(tasks) == \A k \in 1..Len(tasks) : tasks[k].state = "fulfilled"

\* the step in which the search returns its records: every task has settled,
\* and the records returned are the records of the tasks, task after task in
\* the order of the list, filtered
ReturnsAfterAllSettled(s) ==
    (result[s] = NoValue /\ result'[s] # NoValue /\ IsSuccessResult(result'[s])) =>
        /\ AllSettled(propertyPromises[s])
        /\ propertyPromises'[s] = propertyPromises[s]
        /\ result'[s].content.properties = SearchFilter(Gathered(s), receivedParams[s])

\* C27: the result of a search does not depend on the order in which its
\* concurrent detail fetches complete: in every interleaving the pre-filter
\* record list is ordered by results page, then by card position on the
\* page, then by sub-unit position, and the filter is applied only after
\* every detail fetch of every page has settled
C27_OrderIndependent ==
    /\ [](\A s \in SearchIds :
            /\ ByPageThenCard(propertyPromises[s])
            /\ SubUnitsInOrder(propertyPromises[s]))
    /\ [][\A s \in SearchIds : ReturnsAfterAllSettled(s)]_vars

\* the detail fetch of the second card has completed before that of the
\* first, with two sub-unit records, while the tasks are awaited
C27_Witness ==
    /\ sPc["s1"] = "awaitAll"
    /\ Len(propertyPromises["s1"]) = 2
    /\ propertyPromises["s1"][1].state = "pending"
    /\ propertyPromises["s1"][2].state = "fulfilled"
    /\ Len(TaskValue(propertyPromises["s1"][2])) = 2

\* ------------------------------------------------------------------------
\* Properties of the range of the page count (SpecPages)
\* ------------------------------------------------------------------------
\* both page counts derived from the text lie between low and the maximum
PageCountsWithin(low) ==
    /\ tpResult.service \in low..maxPagesToFetch
    /\ tpResult.loop \in low..MAX_PAGES_TO_FETCH

\* C28 as worded: the total page count derived from page 1 is always between
\* 1 and the configured maximum page count inclusive, for every content of
\* the total-results string, including a reported total of 0 results
C28_AtLeastOnePage ==
    tpResult # NoValue => PageCountsWithin(1)

\* C28 (amended): the total page count derived from page 1 is always between
\* 0 and the configured maximum page count inclusive, for every content of
\* the total-results string; it is 0 exactly when the reported total is 0
\* results
C28_PageCountRange ==
    tpResult # NoValue =>
        /\ PageCountsWithin(0)
        /\ (tpResult.service = 0) = (ReportedTotal(tpText) = 0)
        /\ (tpResult.loop = 0) = (ReportedTotal(tpText) = 0)

\* "of 0 total results" was given and 0 pages were derived
C28_Witness ==
    /\ tpResult # NoValue
    /\ tpText = <<"o", "f", " ", "0", " ">> \o TotalResultsLit
    /\ tpResult.service = 0
    /\ tpResult.loop = 0

\* ------------------------------------------------------------------------
\* Termination of the searches (LiveSpec)
\* ------------------------------------------------------------------------
\* C29: assuming every HTTP request eventually succeeds, fails or times out,
\* every search invocation eventually returns a result, whatever the sequence
\* of successes and failures of its page and detail requests
C29_SearchTerminates ==
    \A s \in SearchIds :
        (sPc[s] # "off") ~> (sPc[s] = "done" /\ result[s] # NoValue)

\* both searches have returned: the first its records, after its second
\* page was given up, the second an error, after its first page was given up
C29_Witness ==
    /\ sPc["s1"] = "done"
    /\ pagesGivenUp["s1"] = <<2>>
    /\ IsSuccessResult(result["s1"])
    /\ result["s1"].content.properties # <<>>
    /\ sPc["s2"] = "done"
    /\ pagesGivenUp["s2"] = <<1>>
    /\ IsErrorResult(result["s2"], receivedParams["s2"])

====
